---- MODULE Spec2Model ----
(***************************************************************************)
(* Model of the sheet-backed data layer of the tutor management app        *)
(* (src/app.py): the remote spreadsheet, the cached client, the TTL cache   *)
(* in front of load_sheet_data, the read operations, the two cell-level     *)
(* mutations, the dashboard's grouping of classes, and the pages and        *)
(* buttons of one browser session (st.session_state).                       *)
(*                                                                          *)
(* Text values are sequences of tokens.  The token " " is one whitespace    *)
(* character; every other token is an opaque chunk without whitespace, so   *)
(* "X" is <<"X">> and " X " is <<" ", "X", " ">>.                           *)
(*                                                                          *)
(* A worksheet's rows hold its cells as get_all_records() delivers them,    *)
(* read through str().  Identifiers and other cell texts are non-numeric:   *)
(* the sheet client's reading of a numeric-looking cell as a number ("007"  *)
(* as 7) is outside this model.                                             *)
(***************************************************************************)
EXTENDS Integers, Sequences, FiniteSets, TLC

VARIABLES
    remote,      \* the spreadsheet: a sequence of worksheets [title, headers, rows]
    up,          \* whether a call to the remote store succeeds right now
    client,      \* st.cache_resource slot of get_google_sheets_client
    cache,       \* st.cache_data entries of load_sheet_data, keyed by its argument
    today,       \* the current calendar date
    emptyRaises, \* build: whether .str on the columns of an empty frame raises
    lastOp,      \* the last operation that returned: its arguments and outcome
    session      \* st.session_state of the one browser session, and its pending rerun

vars == <<remote, up, client, cache, today, emptyRaises, lastOp, session>>

-----------------------------------------------------------------------------
(* Text *)

WS == " "

S(x) == <<x>>

Pad(s) == <<WS>> \o s \o <<WS>>

RECURSIVE LStrip(_)
LStrip(s) == IF s # <<>> /\ Head(s) = WS THEN LStrip(Tail(s)) ELSE s

RECURSIVE RStrip(_)
RStrip(s) == IF s # <<>> /\ s[Len(s)] = WS THEN RStrip(SubSeq(s, 1, Len(s) - 1)) ELSE s

Strip(s) == RStrip(LStrip(s))

\* str(None)
NoneStr == <<"None">>

\* pandas' missing value (what Series.map gives for a key the dict lacks)
NaN == <<"#NaN">>

Range(f) == {f[i] : i \in DOMAIN f}

\* list.index(x) + 1, or 0 where Python raises ValueError
IndexOf(seq, x) ==
    LET at == {i \in DOMAIN seq : seq[i] = x} IN
    IF at = {} THEN 0 ELSE CHOOSE i \in at : \A j \in at : i <= j

-----------------------------------------------------------------------------
(* st.session_state *)

\* None in a session slot that otherwise holds text
NoValue == <<"#None">>

\* selected_student: None, or the dict the View Progress button stores
NoStudent == [isNone |-> TRUE, id |-> <<>>, name |-> <<>>, subject |-> <<>>]

\* show_memo_dialog: None, or the dict the Memo button stores
NoDialog == [isNone |-> TRUE, student_id |-> <<>>, student_name |-> <<>>,
             date |-> <<>>, existing_memo |-> <<>>]

\* The session state a new browser session starts with; `rerun` is set while a
\* call of st.rerun() has still to run the script again
NewSession ==
    [logged_in |-> FALSE, tutor_id |-> NoValue, tutor_name |-> NoValue,
     current_view |-> "dashboard", show_memo_dialog |-> NoDialog,
     selected_student |-> NoStudent, rerun |-> FALSE]

-----------------------------------------------------------------------------
(* Calendar dates and their day/month/year text *)

TwoDigits ==
    <<"01", "02", "03", "04", "05", "06", "07", "08", "09", "10",
      "11", "12", "13", "14", "15", "16", "17", "18", "19", "20",
      "21", "22", "23", "24", "25", "26", "27", "28", "29", "30", "31">>

Years == 2024..2025

YearText(y) == IF y = 2024 THEN "2024" ELSE "2025"

\* d.strftime('%m/%d/%Y'): the month first
StrftimeMDY(d) == <<TwoDigits[d.month], "/", TwoDigits[d.day], "/", YearText(d.year)>>

\* d.strftime('%d/%m/%Y')
StrftimeDMY(d) == <<TwoDigits[d.day], "/", TwoDigits[d.month], "/", YearText(d.year)>>

-----------------------------------------------------------------------------
(* The remote spreadsheet (gspread) *)

\* Index of the worksheet titled exactly `title`, 0 for WorksheetNotFound
WorksheetIndex(book, title) ==
    IF \E i \in DOMAIN book : book[i].title = title
    THEN CHOOSE i \in DOMAIN book :
            book[i].title = title /\ \A j \in 1..(i - 1) : book[j].title # title
    ELSE 0

\* Index of the first worksheet whose stripped title equals the stripped name
StrippedWorksheetIndex(book, name) ==
    IF \E i \in DOMAIN book : Strip(book[i].title) = Strip(name)
    THEN CHOOSE i \in DOMAIN book :
            /\ Strip(book[i].title) = Strip(name)
            /\ \A j \in 1..(i - 1) : Strip(book[j].title) # Strip(name)
    ELSE 0

\* The worksheet load_sheet_data reads: exact title first, then stripped title
ExactOnlyResolve(book, name) == WorksheetIndex(book, name)

ResolveWorksheet(book, name) ==
    IF WorksheetIndex(book, name) # 0
    THEN WorksheetIndex(book, name)
    ELSE StrippedWorksheetIndex(book, name)

\* row.get(key) of a record of get_all_records(), through str()
RowGet(headers, row, key) ==
    IF IndexOf(headers, key) = 0 THEN NoneStr ELSE row[IndexOf(headers, key)]

\* worksheet.update_cell(row_num, col, value): sheet row 1 is the header row
UpdateCell(ws, row_num, col, value) ==
    [ws EXCEPT !.rows[row_num - 1][col] = value]

-----------------------------------------------------------------------------
(* Data frames: [columns, data]; a cell is addressed by column name *)

EmptyFrame == [columns |-> <<>>, data |-> <<>>]

IsEmpty(df) == df.data = <<>>

HasColumn(df, c) == IndexOf(df.columns, c) # 0

Cell(df, i, c) == df.data[i][IndexOf(df.columns, c)]

\* pd.DataFrame(worksheet.get_all_records()) with the column names stripped
FrameOf(ws) ==
    IF ws.rows = <<>> THEN EmptyFrame
    ELSE [columns |-> [i \in DOMAIN ws.headers |-> Strip(ws.headers[i])],
          data    |-> ws.rows]

-----------------------------------------------------------------------------
(* Names: worksheet titles, column headers, cell texts *)

Tutors == S("Tutors")
Schedule == S("Schedule")
Students == S("Students")
StudentsSp == <<"Students", WS>>
Student_Plan == S("Student_Plan")
Curriculum_Library == S("Curriculum_Library")

Tutor_ID == S("Tutor_ID")
Password == S("Password")
Name == S("Name")
Student_ID == S("Student_ID")
Student_Name == S("Student_Name")
Date == S("Date")
Subject == S("Subject")
Tutor_Memo == S("Tutor_Memo")
Plan_ID == S("Plan_ID")
Topic_ID == S("Topic_ID")
Status == S("Status")
Completed_By == S("Completed_By")
Date_Completed == S("Date_Completed")
Topic_Content == S("Topic_Content")
Unit_Name == S("Unit_Name")
Sub_Unit_Name == S("Sub_Unit_Name")
Textbook_Ref == S("Textbook_Ref")
Content_Link == S("Content_Link")

Completed == S("Completed")
Pending == S("Pending")
Blank == <<>>

-----------------------------------------------------------------------------
(* get_google_sheets_client under st.cache_resource: the first call's result, *)
(* None included, is kept for the life of the process                         *)

ClientChoices == IF client = "unset" THEN {"ok", "none"} ELSE {client}

-----------------------------------------------------------------------------
(* load_sheet_data under st.cache_data(ttl=60) *)

TTL == 60

TickStep == 30

\* The arguments load_sheet_data is called with
CacheKeys == {Tutors, Schedule, StudentsSp, Students, Student_Plan, Curriculum_Library}

\* What load_sheet_data returns: None, or a frame
NoneResult == [isNone |-> TRUE, df |-> EmptyFrame]

Some(df) == [isNone |-> FALSE, df |-> df]

NoEntry == [present |-> FALSE, value |-> NoneResult, age |-> 0]

Entry(v) == [present |-> TRUE, value |-> v, age |-> 0]

EmptyCache == [k \in CacheKeys |-> NoEntry]

\* The body of load_sheet_data, run with the client `cl`: every failure is caught
\* and turned into the return value None
LoadBody(cl, name) ==
    IF cl # "ok" \/ ~up THEN NoneResult
    ELSE LET i == ResolveWorksheet(remote, name) IN
         IF i = 0 THEN NoneResult
         ELSE IF remote[i].rows = <<>> /\ emptyRaises THEN NoneResult
         ELSE Some(FrameOf(remote[i]))

\* What the body of load_sheet_data shows through st.error before it returns None
NoReport == [kind |-> "none", name |-> <<>>, available |-> <<>>]

\* "Sheet '<name>' not found. Available sheets: <titles>"
SheetNotFound(name, titles) == [kind |-> "Sheet not found", name |-> name, available |-> titles]

\* "Error loading <name>: <exception>"
ErrorLoading(name) == [kind |-> "Error loading", name |-> name, available |-> <<>>]

LoadReport(cl, name) ==
    IF cl # "ok" THEN NoReport
    ELSE IF ~up THEN ErrorLoading(name)
    ELSE LET i == ResolveWorksheet(remote, name) IN
         IF i = 0 THEN SheetNotFound(name, [k \in DOMAIN remote |-> remote[k].title])
         ELSE IF remote[i].rows = <<>> /\ emptyRaises THEN ErrorLoading(name)
         ELSE NoReport

\* A hit needs an entry younger than the TTL
NeverHit(c, name) == FALSE

IsHit(c, name) == c[name].present /\ c[name].age < TTL

\* What the decorator stores after the body has run: the return value, None included
Store(c, name, v) == [c EXCEPT ![name] = Entry(v)]

\* One call load_sheet_data(name) on cache `c`: the value returned, the cache
\* afterwards, and whether the body ran
CachedLoad(c, cl, name) ==
    IF IsHit(c, name)
    THEN [value |-> c[name].value, cache |-> c, fetched |-> FALSE]
    ELSE LET v == LoadBody(cl, name) IN
         [value |-> v, cache |-> Store(c, name, v), fetched |-> TRUE]

\* load_sheet_data.clear() and st.cache_data.clear(): every entry is dropped
ClearCache == EmptyCache

\* TickStep seconds pass; an entry that has reached the TTL is gone
Aged(c) ==
    [k \in CacheKeys |->
        IF c[k].present /\ c[k].age + TickStep < TTL
        THEN [c[k] EXCEPT !.age = c[k].age + TickStep]
        ELSE NoEntry]

-----------------------------------------------------------------------------
(* The initial spreadsheet *)

Day1 == [year |-> 2024, month |-> 4, day |-> 3]
Day2 == [year |-> 2024, month |-> 4, day |-> 9]
Day3 == [year |-> 2025, month |-> 1, day |-> 31]

TutorsSheet ==
    [title   |-> Tutors,
     headers |-> <<Tutor_ID, Password, Name>>,
     rows    |-> << <<S("T1"), S("pw1"), S("Ann")>>,
                   <<Pad(S("T2")), Pad(S("pw2")), S("Bob")>> >>]

StudentsSheet ==
    [title   |-> StudentsSp,
     headers |-> <<Student_ID, <<"Student_Name", WS>> >>,
     rows    |-> << <<S("s1"), S("Sam")>>, <<Pad(S("s2")), S("Sue")>> >>]

ScheduleSheet ==
    [title   |-> Schedule,
     headers |-> <<Student_ID, Date, Tutor_ID, Subject, Tutor_Memo>>,
     rows    |-> << <<S("s1"), StrftimeDMY(Day1), S("T1"), S("Math"), Blank>>,
                   <<Pad(S("s1")), Pad(StrftimeDMY(Day1)), S("T1"), S("Art"), Blank>>,
                   <<S("s2"), StrftimeDMY(Day2), Pad(S("T1")), S("Math"), Blank>> >>]

StudentPlanSheet ==
    [title   |-> Student_Plan,
     headers |-> <<Plan_ID, Student_ID, Topic_ID, Status, Completed_By,
                   Date_Completed, Topic_Content>>,
     rows    |-> << <<S("P1"), S("s1"), S("t1"), Pending, Blank, Blank, Blank>>,
                   <<S("P2"), Pad(S("s1")), S("t9"), Blank, Blank, Blank, S("X")>>,
                   <<S("P3"), S("s2"), Pad(S("t1")), Completed, S("T2"),
                     StrftimeDMY(Day1), Blank>> >>]

CurriculumSheet ==
    [title   |-> Curriculum_Library,
     headers |-> <<Topic_ID, Unit_Name, Sub_Unit_Name, Textbook_Ref>>,
     rows    |-> << <<S("t1"), S("U1"), S("SU1"), S("Y")>> >>]

Book == <<TutorsSheet, StudentsSheet, ScheduleSheet, StudentPlanSheet, CurriculumSheet>>

\* The worksheet of the book with this exact title (the mutations' lookup)
SheetAt(book, title) == book[WorksheetIndex(book, title)]

-----------------------------------------------------------------------------
(* Environment: time, the network, other editors of the spreadsheet *)

Tick ==
    /\ cache' = Aged(cache)
    /\ cache' # cache
    /\ UNCHANGED <<remote, up, client, today, emptyRaises, lastOp, session>>

StoreDown ==
    /\ up
    /\ up' = FALSE
    /\ UNCHANGED <<remote, client, cache, today, emptyRaises, lastOp, session>>

StoreUp ==
    /\ ~up
    /\ up' = TRUE
    /\ UNCHANGED <<remote, client, cache, today, emptyRaises, lastOp, session>>

-----------------------------------------------------------------------------
(* load_sheet_data called directly, and the Refresh buttons *)

LoadSheetData(name) ==
    \E cl \in ClientChoices :
        LET r == CachedLoad(cache, cl, name) IN
        /\ cache' = r.cache
        /\ client' = IF r.fetched THEN cl ELSE client
        /\ lastOp' = [op |-> "load", name |-> name, value |-> r.value,
                      fetched |-> r.fetched,
                      report |-> IF r.fetched THEN LoadReport(cl, name) ELSE NoReport]
        /\ UNCHANGED <<remote, up, today, emptyRaises, session>>

Refresh ==
    /\ cache' = ClearCache
    /\ lastOp' = [op |-> "refresh"]
    /\ UNCHANGED <<remote, up, client, today, emptyRaises, session>>

-----------------------------------------------------------------------------
(* Outcomes of the mutations: (success, message) *)

Msg(text) == <<text>>

MemoSaved == Msg("Memo saved successfully!")
MemoColumnNotFound == Msg("Tutor_Memo column not found in Schedule sheet")
ClassNotFound == Msg("Class not found in schedule")
ErrorSavingMemo(exc) == <<"Error saving memo: ", exc>>

TopicMarked == Msg("Topic marked as completed!")
PlanNotFound == Msg("Plan ID not found")
ErrorUpdating(exc) == <<"Error updating: ", exc>>

\* What the calls before the first cell write can raise
SetupFailure(cl, title) ==
    IF cl # "ok" THEN "AttributeError"
    ELSE IF ~up THEN "APIError"
    ELSE IF WorksheetIndex(remote, title) = 0 THEN "WorksheetNotFound"
    ELSE "none"

\* `book` with the cell writes `ws` (each <<row_num, col, value>>) applied in order
RECURSIVE ApplyWrites(_, _, _)
ApplyWrites(book, title, ws) ==
    IF ws = <<>> THEN book
    ELSE LET i == WorksheetIndex(book, title)
             w == Head(ws)
         IN ApplyWrites([book EXCEPT ![i] = UpdateCell(book[i], w[1], w[2], w[3])],
                        title, Tail(ws))

-----------------------------------------------------------------------------
(* save_tutor_memo *)

\* The first record whose stripped Student_ID and Date equal the stripped arguments
\* (its index in get_all_records(), from 1), or 0
MemoRowExact(ws, student_id, class_date) ==
    LET hit(i) == /\ RowGet(ws.headers, ws.rows[i], Student_ID) = student_id
                  /\ RowGet(ws.headers, ws.rows[i], Date) = class_date
    IN IF \E i \in DOMAIN ws.rows : hit(i)
       THEN CHOOSE i \in DOMAIN ws.rows : hit(i) /\ \A j \in 1..(i - 1) : ~hit(j)
       ELSE 0

MemoRow(ws, student_id, class_date) ==
    LET hit(i) == /\ Strip(RowGet(ws.headers, ws.rows[i], Student_ID)) = Strip(student_id)
                  /\ Strip(RowGet(ws.headers, ws.rows[i], Date)) = Strip(class_date)
    IN IF \E i \in DOMAIN ws.rows : hit(i)
       THEN CHOOSE i \in DOMAIN ws.rows : hit(i) /\ \A j \in 1..(i - 1) : ~hit(j)
       ELSE 0

\* The cell write of save_tutor_memo for record `idx`
MemoWrites(ws, idx, memo_text) ==
    << <<idx + 1, IndexOf(ws.headers, Tutor_Memo), memo_text>> >>

\* The cache after a mutation that wrote `n` of its `all` cells
CacheAfterWrites(c, n, all) == IF n = all THEN ClearCache ELSE c

SaveTutorMemoWith(cl, held, student_id, class_date, memo_text) ==
    \E n \in 0..1 :
        LET fail == SetupFailure(cl, Schedule)
            ws   == SheetAt(remote, Schedule)
            idx  == MemoRow(ws, student_id, class_date)
            done(ok, msg, writes) ==
                /\ remote' = ApplyWrites(remote, Schedule, writes)
                /\ cache' = CacheAfterWrites(held, Len(writes), 1)
                /\ lastOp' = [op |-> "memo", student_id |-> student_id,
                              class_date |-> class_date, memo_text |-> memo_text,
                              ok |-> ok, msg |-> msg, writes |-> writes]
        IN
        /\ client' = cl
        /\ UNCHANGED <<up, today, emptyRaises>>
        /\ IF fail # "none" THEN n = 0 /\ done(FALSE, ErrorSavingMemo(fail), <<>>)
           ELSE IF idx = 0 THEN n = 0 /\ done(FALSE, ClassNotFound, <<>>)
           ELSE IF IndexOf(ws.headers, Tutor_Memo) = 0
                THEN n = 0 /\ done(FALSE, MemoColumnNotFound, <<>>)
           ELSE IF n = 0 THEN done(FALSE, ErrorSavingMemo("APIError"), <<>>)
           ELSE done(TRUE, MemoSaved, MemoWrites(ws, idx, memo_text))

SaveTutorMemo(student_id, class_date, memo_text) ==
    \E cl \in ClientChoices :
        SaveTutorMemoWith(cl, cache, student_id, class_date, memo_text) /\ UNCHANGED session

-----------------------------------------------------------------------------
(* mark_topic_complete *)

\* The first record whose Plan_ID equals the argument (no stripping), or 0
PlanRowStripped(ws, plan_id) ==
    LET hit(i) == Strip(RowGet(ws.headers, ws.rows[i], Plan_ID)) = Strip(plan_id)
    IN IF \E i \in DOMAIN ws.rows : hit(i)
       THEN CHOOSE i \in DOMAIN ws.rows : hit(i) /\ \A j \in 1..(i - 1) : ~hit(j)
       ELSE 0

\* The row looked up in the cached Student_Plan snapshot when there is one
PlanRowCached(ws, plan_id) ==
    LET e    == cache[Student_Plan]
        seen == IF e.present /\ ~e.value.isNone /\ HasColumn(e.value.df, Plan_ID)
                THEN e.value.df.data ELSE ws.rows
        hit(i) == RowGet(ws.headers, seen[i], Plan_ID) = plan_id
    IN IF \E i \in DOMAIN seen : hit(i)
       THEN CHOOSE i \in DOMAIN seen : hit(i) /\ \A j \in 1..(i - 1) : ~hit(j)
       ELSE 0

PlanRow(ws, plan_id) ==
    LET hit(i) == RowGet(ws.headers, ws.rows[i], Plan_ID) = plan_id
    IN IF \E i \in DOMAIN ws.rows : hit(i)
       THEN CHOOSE i \in DOMAIN ws.rows : hit(i) /\ \A j \in 1..(i - 1) : ~hit(j)
       ELSE 0

\* The three cell writes of mark_topic_complete for record `idx`, in order
MarkWritesMonthFirst(ws, idx, tutor_id, day) ==
    << <<idx + 1, IndexOf(ws.headers, Status), Completed>>,
       <<idx + 1, IndexOf(ws.headers, Completed_By), tutor_id>>,
       <<idx + 1, IndexOf(ws.headers, Date_Completed), StrftimeMDY(day)>> >>

\* headers.index(...) used as the column number, without the + 1
MarkWritesZeroBased(ws, idx, tutor_id, day) ==
    << <<idx + 1, IndexOf(ws.headers, Status) - 1, Completed>>,
       <<idx + 1, IndexOf(ws.headers, Completed_By) - 1, tutor_id>>,
       <<idx + 1, IndexOf(ws.headers, Date_Completed) - 1, StrftimeDMY(day)>> >>

MarkWrites(ws, idx, tutor_id, day) ==
    << <<idx + 1, IndexOf(ws.headers, Status), Completed>>,
       <<idx + 1, IndexOf(ws.headers, Completed_By), tutor_id>>,
       <<idx + 1, IndexOf(ws.headers, Date_Completed), StrftimeDMY(day)>> >>

MarkTopicCompleteWith(cl, held, plan_id, tutor_id) ==
    \E n \in 0..3 :
        LET fail == SetupFailure(cl, Student_Plan)
            ws   == SheetAt(remote, Student_Plan)
            idx  == PlanRow(ws, plan_id)
            all  == MarkWrites(ws, idx, tutor_id, today)
            done(ok, msg, writes) ==
                /\ remote' = ApplyWrites(remote, Student_Plan, writes)
                /\ cache' = CacheAfterWrites(held, Len(writes), 3)
                /\ lastOp' = [op |-> "mark", plan_id |-> plan_id, tutor_id |-> tutor_id,
                              ok |-> ok, msg |-> msg, writes |-> writes]
        IN
        /\ client' = cl
        /\ UNCHANGED <<up, today, emptyRaises>>
        /\ IF fail # "none" THEN n = 0 /\ done(FALSE, ErrorUpdating(fail), <<>>)
           ELSE IF idx = 0 THEN n = 0 /\ done(FALSE, PlanNotFound, <<>>)
           ELSE IF \E c \in {Status, Completed_By, Date_Completed} :
                       IndexOf(ws.headers, c) = 0
                THEN n = 0 /\ done(FALSE, ErrorUpdating("ValueError"), <<>>)
           ELSE IF n < 3 THEN done(FALSE, ErrorUpdating("APIError"), SubSeq(all, 1, n))
           ELSE done(TRUE, TopicMarked, all)

MarkTopicComplete(plan_id, tutor_id) ==
    \E cl \in ClientChoices :
        MarkTopicCompleteWith(cl, cache, plan_id, tutor_id) /\ UNCHANGED session

-----------------------------------------------------------------------------
(* get_student_plan, and the counts show_student_plan draws from it *)

\* df[df[col].astype(str).str.strip() == str(key).strip()]
FilterStripped(df, col, key) ==
    LET keep(row) == Strip(row[IndexOf(df.columns, col)]) = Strip(key)
    IN [df EXCEPT !.data = SelectSeq(df.data, keep)]

\* dict(zip(df[keycol] stripped, df[valcol] stripped)).get(key, default): the last
\* row with the key wins
MapGet(df, keycol, valcol, key, default) ==
    LET hit(i) == Strip(Cell(df, i, keycol)) = key
    IN IF \E i \in DOMAIN df.data : hit(i)
       THEN LET i == CHOOSE i \in DOMAIN df.data :
                        hit(i) /\ \A j \in DOMAIN df.data : hit(j) => j <= i
            IN Strip(Cell(df, i, valcol))
       ELSE default

\* row.get('Topic_Content') if it is present and not blank, else the textbook link
ContentLink(plan, cur, row) ==
    LET tc == IF HasColumn(plan, Topic_Content)
              THEN row[IndexOf(plan.columns, Topic_Content)] ELSE NaN
    IN IF tc # NaN /\ Strip(tc) # <<>> THEN tc
       ELSE MapGet(cur, Topic_ID, Textbook_Ref, Strip(row[IndexOf(plan.columns, Topic_ID)]),
                   Blank)

\* The columns get_student_plan reads from a non-empty curriculum
CurriculumColumns == {Topic_ID, Sub_Unit_Name, Unit_Name, Textbook_Ref}

\* student_plan with the three derived columns appended
Joined(sp, cur) ==
    [columns |-> sp.columns \o <<Sub_Unit_Name, Unit_Name, Content_Link>>,
     data    |-> [i \in DOMAIN sp.data |->
                    LET row   == sp.data[i]
                        topic == Strip(row[IndexOf(sp.columns, Topic_ID)])
                    IN row \o <<MapGet(cur, Topic_ID, Sub_Unit_Name, topic, NaN),
                                MapGet(cur, Topic_ID, Unit_Name, topic, NaN),
                                ContentLink(sp, cur, row)>>]]

Returned(df) == [raised |-> FALSE, df |-> df]

Raised == [raised |-> TRUE, df |-> EmptyFrame]

\* get_student_plan on what the two loads returned
StudentPlanOf(plan, cur, student_id) ==
    IF plan.isNone \/ cur.isNone THEN Returned(EmptyFrame)
    ELSE IF ~HasColumn(plan.df, Student_ID) THEN Raised
    ELSE LET sp == FilterStripped(plan.df, Student_ID, student_id) IN
         IF IsEmpty(cur.df) THEN Returned(sp)
         ELSE IF \E c \in CurriculumColumns : ~HasColumn(cur.df, c) THEN Raised
         ELSE IF ~HasColumn(sp, Topic_ID) THEN Raised
         ELSE Returned(Joined(sp, cur.df))

\* len(plan_df[plan_df['Status'] == 'Completed']) and its complement
CompletedCount(df) ==
    Cardinality({i \in DOMAIN df.data : Cell(df, i, Status) = Completed})

PendingCount(df) ==
    Cardinality({i \in DOMAIN df.data : Cell(df, i, Status) # Completed})

\* get_student_plan once both of its loads are done
PlanAfterLoads(r1, r2, student_id) ==
    [res      |-> StudentPlanOf(r1.value, r2.value, student_id),
     cache    |-> r2.cache,
     fetched  |-> r1.fetched \/ r2.fetched,
     planNone |-> r1.value.isNone, curNone |-> r2.value.isNone,
     fetched1 |-> r1.fetched]

PlanAfterPlanLoad(r1, cl, student_id) ==
    PlanAfterLoads(r1, CachedLoad(r1.cache, cl, Curriculum_Library), student_id)

\* One call of get_student_plan from cache c: its result, the cache afterwards
\* and what the two loads did
StudentPlanCall(c, cl, student_id) ==
    PlanAfterPlanLoad(CachedLoad(c, cl, Student_Plan), cl, student_id)

\* The state after a call of get_student_plan that went as `call`
StudentPlanReturn(cl, call, student_id) ==
    /\ cache' = call.cache
    /\ client' = IF call.fetched THEN cl ELSE client
    /\ lastOp' = [op |-> "plan", student_id |-> student_id,
                  raised |-> call.res.raised, df |-> call.res.df,
                  planNone |-> call.planNone, curNone |-> call.curNone,
                  fetched |-> call.fetched1]
    /\ UNCHANGED <<remote, up, today, emptyRaises>>

GetStudentPlanWith(cl, held, student_id) ==
    StudentPlanReturn(cl, StudentPlanCall(held, cl, student_id), student_id)

GetStudentPlan(student_id) ==
    \E cl \in ClientChoices :
        GetStudentPlanWith(cl, cache, student_id) /\ UNCHANGED session

-----------------------------------------------------------------------------
(* authenticate_tutor *)

CannotAccessTutors == Msg("Cannot access Tutors database")
MissingTutorID == Msg("Tutors sheet missing 'Tutor_ID' column")
MissingPassword == Msg("Tutors sheet missing 'Password' column")
InvalidTutorID == Msg("Invalid Tutor ID")
InvalidPassword == Msg("Invalid password")

Failure(msg) == [ok |-> FALSE, msg |-> msg]

Success(text) == [ok |-> TRUE, msg |-> text]

\* authenticate_tutor on what load_sheet_data("Tutors") returned
AuthenticateAnyRow(tutors, tutor_id, password) ==
    IF tutors.isNone \/ IsEmpty(tutors.df) THEN Failure(CannotAccessTutors)
    ELSE IF ~HasColumn(tutors.df, Tutor_ID) THEN Failure(MissingTutorID)
    ELSE IF ~HasColumn(tutors.df, Password) THEN Failure(MissingPassword)
    ELSE LET tutor == FilterStripped(tutors.df, Tutor_ID, tutor_id) IN
         IF IsEmpty(tutor) THEN Failure(InvalidTutorID)
         ELSE IF \E i \in DOMAIN tutor.data :
                    Strip(Cell(tutor, i, Password)) = Strip(password)
              THEN Success(IF HasColumn(tutor, Name) THEN Cell(tutor, 1, Name)
                           ELSE tutor_id)
              ELSE Failure(InvalidPassword)

AuthenticateOn(tutors, tutor_id, password) ==
    IF tutors.isNone \/ IsEmpty(tutors.df) THEN Failure(CannotAccessTutors)
    ELSE IF ~HasColumn(tutors.df, Tutor_ID) THEN Failure(MissingTutorID)
    ELSE IF ~HasColumn(tutors.df, Password) THEN Failure(MissingPassword)
    ELSE LET tutor == FilterStripped(tutors.df, Tutor_ID, tutor_id) IN
         IF IsEmpty(tutor) THEN Failure(InvalidTutorID)
         ELSE IF Strip(Cell(tutor, 1, Password)) = Strip(password)
              THEN Success(IF HasColumn(tutor, Name) THEN Cell(tutor, 1, Name)
                           ELSE tutor_id)
              ELSE Failure(InvalidPassword)

AuthenticateTutorWith(cl, held, tutor_id, password) ==
        LET r   == CachedLoad(held, cl, Tutors)
            res == AuthenticateOn(r.value, tutor_id, password)
        IN
        /\ cache' = r.cache
        /\ client' = IF r.fetched THEN cl ELSE client
        /\ lastOp' = [op |-> "auth", tutor_id |-> tutor_id, password |-> password,
                      ok |-> res.ok, msg |-> res.msg,
                      loaded |-> ~r.value.isNone, fetched |-> r.fetched]
        /\ UNCHANGED <<remote, up, today, emptyRaises>>

AuthenticateTutor(tutor_id, password) ==
    \E cl \in ClientChoices :
        AuthenticateTutorWith(cl, cache, tutor_id, password) /\ UNCHANGED session

-----------------------------------------------------------------------------
(* get_tutor_classes *)

\* tutor_classes with the Student_Name column set from the Students frame
WithStudentNames(tc, students) ==
    LET names == [i \in DOMAIN tc.data |->
                    MapGet(students, Student_ID, Student_Name,
                           Strip(tc.data[i][IndexOf(tc.columns, Student_ID)]), NaN)]
        at == IndexOf(tc.columns, Student_Name)
    IN IF at = 0
       THEN [columns |-> Append(tc.columns, Student_Name),
             data    |-> [i \in DOMAIN tc.data |-> Append(tc.data[i], names[i])]]
       ELSE [tc EXCEPT !.data = [i \in DOMAIN tc.data |->
                                    [tc.data[i] EXCEPT ![at] = names[i]]]]

\* get_tutor_classes on what the loads of "Schedule" and of the Students sheet returned
TutorClassesOf(schedule, students, tutor_id) ==
    IF schedule.isNone \/ IsEmpty(schedule.df) THEN Returned(EmptyFrame)
    ELSE IF ~HasColumn(schedule.df, Tutor_ID) THEN Raised
    ELSE LET tc == FilterStripped(schedule.df, Tutor_ID, tutor_id) IN
         IF students.isNone \/ IsEmpty(students.df) THEN Returned(tc)
         ELSE IF ~HasColumn(students.df, Student_ID) \/ ~HasColumn(students.df, Student_Name)
              THEN Raised
         ELSE IF ~HasColumn(tc, Student_ID) THEN Raised
         ELSE Returned(WithStudentNames(tc, students.df))

\* get_tutor_classes once the Students frame `r` is loaded (r1: the Schedule load)
ClassesWithStudents(r1, before, r, tutor_id) ==
    [res       |-> TutorClassesOf(r1.value, r.value, tutor_id),
     cache     |-> r.cache,
     fetched   |-> r1.fetched \/ before \/ r.fetched,
     schedNone |-> FALSE]

\* "Students " is read first; "Students" is read when that gave nothing
ClassesAfterStudentsSp(r1, r2, cl, tutor_id) ==
    IF r2.value.isNone \/ IsEmpty(r2.value.df)
    THEN ClassesWithStudents(r1, r2.fetched, CachedLoad(r2.cache, cl, Students), tutor_id)
    ELSE ClassesWithStudents(r1, FALSE, r2, tutor_id)

\* The Students sheet is read only when the schedule has rows and a Tutor_ID column
ClassesAfterSchedule(r1, cl, tutor_id) ==
    IF r1.value.isNone \/ IsEmpty(r1.value.df) \/ ~HasColumn(r1.value.df, Tutor_ID)
    THEN [res       |-> TutorClassesOf(r1.value, NoneResult, tutor_id),
          cache     |-> r1.cache,
          fetched   |-> r1.fetched,
          schedNone |-> r1.value.isNone]
    ELSE ClassesAfterStudentsSp(r1, CachedLoad(r1.cache, cl, StudentsSp), cl, tutor_id)

\* One call of get_tutor_classes from cache c: its result, the cache afterwards,
\* whether a load body ran, and whether the Schedule load gave None
TutorClassesCall(c, cl, tutor_id) ==
    ClassesAfterSchedule(CachedLoad(c, cl, Schedule), cl, tutor_id)

\* The state after a call of get_tutor_classes that went as `call`
TutorClassesReturn(cl, call, tutor_id) ==
    /\ cache' = call.cache
    /\ client' = IF call.fetched THEN cl ELSE client
    /\ lastOp' = [op |-> "classes", tutor_id |-> tutor_id,
                  raised |-> call.res.raised, df |-> call.res.df,
                  schedNone |-> call.schedNone]
    /\ UNCHANGED <<remote, up, today, emptyRaises, session>>

GetTutorClasses(tutor_id) ==
    \E cl \in ClientChoices :
        TutorClassesReturn(cl, TutorClassesCall(cache, cl, tutor_id), tutor_id)

-----------------------------------------------------------------------------
(* Another editor of the spreadsheet changes one cell *)

ExternalEdit(title, row_num, column, value) ==
    LET i == WorksheetIndex(remote, title)
        c == IndexOf(remote[i].headers, column)
    IN
    /\ remote[i].rows[row_num - 1][c] # value
    /\ remote' = [remote EXCEPT ![i] = UpdateCell(remote[i], row_num, c, value)]
    /\ UNCHANGED <<up, client, cache, today, emptyRaises, lastOp, session>>

-----------------------------------------------------------------------------
(* The application on the initial spreadsheet *)

PlanArgs == {S("P1"), Pad(S("P1")), S("P2"), S("NOPE")}

TutorArgs == {S("T1")}

StudentArgs == {S("s1"), Pad(S("s1")), S("s0")}

Init ==
    /\ remote = Book
    /\ up = TRUE
    /\ client = "unset"
    /\ cache = EmptyCache
    /\ today \in {Day2, Day3}
    /\ emptyRaises \in BOOLEAN
    /\ lastOp = [op |-> "start"]
    /\ session = NewSession

Next ==
    \/ Tick
    \/ StoreDown
    \/ StoreUp
    \/ Refresh
    \/ \E s \in StudentArgs : GetStudentPlan(s)
    \/ \E p \in PlanArgs, t \in TutorArgs : MarkTopicComplete(p, t)
    \/ ExternalEdit(Student_Plan, 3, Status, Completed)

Spec == Init /\ [][Next]_vars

-----------------------------------------------------------------------------
(* Memos: the Schedule sheet, with and without its Tutor_Memo column *)

\* The same sheet before anyone added the Tutor_Memo column
NoMemoColumn(ws) ==
    [ws EXCEPT !.headers = SubSeq(ws.headers, 1, Len(ws.headers) - 1),
               !.rows = [i \in DOMAIN ws.rows |->
                            SubSeq(ws.rows[i], 1, Len(ws.rows[i]) - 1)]]

BookNoMemo == [Book EXCEPT ![3] = NoMemoColumn(ScheduleSheet)]

MemoStudentArgs == {S("s1"), Pad(S("s1")), S("s2")}

DateArgs == {StrftimeDMY(Day1), Pad(StrftimeDMY(Day1)), StrftimeDMY(Day2)}

MemoArgs == {S("note"), S("redo")}

InitMemo ==
    /\ remote \in {Book, BookNoMemo}
    /\ up = TRUE
    /\ client = "unset"
    /\ cache = EmptyCache
    /\ today = Day2
    /\ emptyRaises \in BOOLEAN
    /\ lastOp = [op |-> "start"]
    /\ session = NewSession

NextMemo ==
    \/ Tick
    \/ StoreDown
    \/ StoreUp
    \/ Refresh
    \/ LoadSheetData(Schedule)
    \/ \E s \in MemoStudentArgs, d \in DateArgs, m \in MemoArgs : SaveTutorMemo(s, d, m)

SpecMemo == InitMemo /\ [][NextMemo]_vars

-----------------------------------------------------------------------------
(* load_sheet_data alone: a spreadsheet with an empty Tutors sheet and no      *)
(* Curriculum_Library sheet, read by name while it is edited and invalidated   *)

EmptyTutorsSheet == [TutorsSheet EXCEPT !.rows = <<>>]

BookCache == <<EmptyTutorsSheet, StudentsSheet, ScheduleSheet, StudentPlanSheet>>

LoadNames == {Schedule, Students, Tutors, Curriculum_Library}

InitCache ==
    /\ remote = BookCache
    /\ up = TRUE
    /\ client = "unset"
    /\ cache = EmptyCache
    /\ today = Day2
    /\ emptyRaises \in BOOLEAN
    /\ lastOp = [op |-> "start"]
    /\ session = NewSession

NextCache ==
    \/ Tick
    \/ StoreDown
    \/ StoreUp
    \/ Refresh
    \/ \E name \in LoadNames : LoadSheetData(name)
    \/ SaveTutorMemo(S("s2"), StrftimeDMY(Day2), S("note"))
    \/ \E v \in {S("Sam"), S("Sammy")} : ExternalEdit(StudentsSp, 2, <<"Student_Name", WS>>, v)

SpecCache == InitCache /\ [][NextCache]_vars

-----------------------------------------------------------------------------
(* C1: a load_sheet_data(T) call that finds an entry for T younger than the   *)
(* TTL (an earlier call, no invalidation since) returns that same snapshot    *)
(* without running the body, whatever the remote table holds by now; a call   *)
(* that finds none (first call, after a clear, after expiry) runs the body,   *)
(* and when the store answers and the sheet has rows it returns the sheet's   *)
(* current rows under the stripped headers.                                   *)

C1_LoadPost(T) ==
    IF cache[T].present /\ cache[T].age < TTL
    THEN /\ lastOp'.value = cache[T].value
         /\ ~lastOp'.fetched
         /\ cache' = cache
         /\ (lastOp.op = "load" /\ lastOp.name = T) => lastOp'.value = lastOp.value
    ELSE /\ lastOp'.fetched
         /\ cache'[T].present /\ cache'[T].value = lastOp'.value
         /\ LET i == ResolveWorksheet(remote, T) IN
            /\ (client' = "ok" /\ up /\ i # 0 /\ remote[i].rows # <<>>) =>
                /\ ~lastOp'.value.isNone
                /\ lastOp'.value.df.data = remote[i].rows
                /\ \A c \in DOMAIN remote[i].headers :
                      lastOp'.value.df.columns[c] = Strip(remote[i].headers[c])
            /\ (client' = "ok" /\ up /\ i # 0 /\ remote[i].rows = <<>>) =>
                lastOp'.value.isNone \/ lastOp'.value.df = EmptyFrame

\* C1: every load_sheet_data call that returns satisfies the hit-or-fresh-read
\* postcondition above for its table
C1_CacheWindow ==
    [][(lastOp'.op = "load" /\ LoadSheetData(lastOp'.name)) => C1_LoadPost(lastOp'.name)]_vars

\* A hit served a snapshot that the remote sheet no longer matches
C1_Witness ==
    /\ lastOp.op = "load"
    /\ ~lastOp.fetched
    /\ ~lastOp.value.isNone
    /\ lastOp.value.df.data # remote[ResolveWorksheet(remote, lastOp.name)].rows

\* A miss after an earlier load returned the sheet's new content
C1_WitnessFresh ==
    /\ lastOp.op = "load"
    /\ lastOp.fetched
    /\ ~lastOp.value.isNone
    /\ lastOp.value.df.data # BookCache[ResolveWorksheet(remote, lastOp.name)].rows

-----------------------------------------------------------------------------
(* C3: a load_sheet_data call whose materialization fails leaves the cache    *)
(* entry of that table as it was, and no entry ever holds a failure result.   *)

C3_FailureNotCached ==
    [][(/\ lastOp'.op = "load" /\ LoadSheetData(lastOp'.name)
        /\ lastOp'.fetched /\ lastOp'.value.isNone) =>
              /\ cache'[lastOp'.name] = cache[lastOp'.name]
              /\ \A k \in CacheKeys : cache'[k].present => ~cache'[k].value.isNone]_vars

-----------------------------------------------------------------------------
(* C2: once a mutation has written at least one cell of a table, the cached   *)
(* snapshot of that table is gone when the mutation returns, whatever the     *)
(* outcome it reports.                                                        *)

C2_SnapshotDroppedAfterWrite ==
    /\ (lastOp.op = "mark" /\ lastOp.writes # <<>>) => ~cache[Student_Plan].present
    /\ (lastOp.op = "memo" /\ lastOp.writes # <<>>) => ~cache[Schedule].present

-----------------------------------------------------------------------------
(* C4: mark_topic_complete(p, t) on a row with Plan_ID p that is not yet      *)
(* Completed, with every remote call succeeding, returns success and leaves   *)
(* that row Completed by t on today's day/month/year date, one more completed *)
(* and one less pending row for its student, and no cached Student_Plan       *)
(* snapshot; the get_student_plan call that follows for that student, when    *)
(* its loads succeed, shows the counts of the table as it is now.             *)

RowOf(ws, col, i) == RowGet(ws.headers, ws.rows[i], col)

RemoteCompleted(book, student_id) ==
    LET ws == SheetAt(book, Student_Plan) IN
    Cardinality({i \in DOMAIN ws.rows :
                    /\ Strip(RowOf(ws, Student_ID, i)) = Strip(student_id)
                    /\ RowOf(ws, Status, i) = Completed})

RemotePending(book, student_id) ==
    LET ws == SheetAt(book, Student_Plan) IN
    Cardinality({i \in DOMAIN ws.rows :
                    /\ Strip(RowOf(ws, Student_ID, i)) = Strip(student_id)
                    /\ RowOf(ws, Status, i) # Completed})

C4_MarkPost(p, t) ==
    LET ws  == SheetAt(remote, Student_Plan)
        ws2 == SheetAt(remote', Student_Plan)
    IN \A i \in DOMAIN ws.rows :
        (/\ RowOf(ws, Plan_ID, i) = p
         /\ RowOf(ws, Status, i) # Completed
         /\ client' = "ok" /\ up
         /\ lastOp'.msg # ErrorUpdating("APIError")) =>
            LET s == RowOf(ws, Student_ID, i) IN
            /\ lastOp'.ok
            /\ lastOp'.msg = TopicMarked
            /\ RowOf(ws2, Status, i) = Completed
            /\ RowOf(ws2, Completed_By, i) = t
            /\ RowOf(ws2, Date_Completed, i) =
                  <<TwoDigits[today.day], "/", TwoDigits[today.month], "/",
                    YearText(today.year)>>
            /\ RemoteCompleted(remote', s) = RemoteCompleted(remote, s) + 1
            /\ RemotePending(remote', s) = RemotePending(remote, s) - 1
            /\ ~cache'[Student_Plan].present

C4_NextPlanPost(s) ==
    (/\ lastOp.op = "mark" /\ lastOp.ok
     /\ ~lastOp'.planNone /\ ~lastOp'.curNone) =>
        /\ ~lastOp'.raised
        /\ lastOp'.fetched
        /\ CompletedCount(lastOp'.df) = RemoteCompleted(remote, s)
        /\ PendingCount(lastOp'.df) = RemotePending(remote, s)

\* C4: every mark_topic_complete call on a pending row that the store answers,
\* and every get_student_plan call that follows a successful mark, satisfies the
\* postconditions above
C4_MarkThenPlan ==
    [][/\ (lastOp'.op = "mark" /\ MarkTopicComplete(lastOp'.plan_id, lastOp'.tutor_id))
            => C4_MarkPost(lastOp'.plan_id, lastOp'.tutor_id)
       /\ (lastOp'.op = "plan" /\ GetStudentPlan(lastOp'.student_id))
            => C4_NextPlanPost(lastOp'.student_id)]_vars

\* A plan read that ran after a successful mark and shows the row completed
C4_Witness ==
    /\ lastOp.op = "plan"
    /\ lastOp.fetched
    /\ lastOp.student_id = S("s1")
    /\ CompletedCount(lastOp.df) = 2
    /\ PendingCount(lastOp.df) = 0

-----------------------------------------------------------------------------
(* C5: mark_topic_complete(p, t) for a Plan_ID no row carries writes no cell  *)
(* and changes no table, and when the store answers its outcome is the        *)
(* failure "Plan ID not found".                                               *)

C5_MarkPost(p) ==
    LET ws == SheetAt(remote, Student_Plan) IN
    (\A i \in DOMAIN ws.rows : RowOf(ws, Plan_ID, i) # p) =>
        /\ lastOp'.writes = <<>>
        /\ remote' = remote
        /\ ~lastOp'.ok
        /\ (client' = "ok" /\ up) => lastOp'.msg = PlanNotFound

\* C5: every mark_topic_complete call for a Plan_ID no row carries writes no
\* cell, changes no table and fails, with "Plan ID not found" when the store answers
C5_UnknownPlanWritesNothing ==
    [][(lastOp'.op = "mark" /\ MarkTopicComplete(lastOp'.plan_id, lastOp'.tutor_id))
          => C5_MarkPost(lastOp'.plan_id)]_vars

C5_Witness ==
    /\ lastOp.op = "mark"
    /\ lastOp.plan_id = S("NOPE")
    /\ lastOp.msg = PlanNotFound

-----------------------------------------------------------------------------
(* C6: a mark_topic_complete call that fails after writing one or two of its  *)
(* three cells reports an outcome that no call failing with zero writes can   *)
(* report.                                                                    *)

\* The outcomes mark_topic_complete reports when it fails before any write
ZeroWriteFailures ==
    {PlanNotFound} \cup
    {ErrorUpdating(e) : e \in {"AttributeError", "APIError", "WorksheetNotFound",
                               "ValueError"}}

C6_PartialWriteDistinct ==
    (lastOp.op = "mark" /\ Len(lastOp.writes) \in 1..2) =>
        /\ ~lastOp.ok
        /\ lastOp.msg \notin ZeroWriteFailures

-----------------------------------------------------------------------------
(* C7: save_tutor_memo(s, d, m), when the store answers, reports "Class not   *)
(* found" if no Schedule row matches s and d after stripping and "column not  *)
(* found" if one does but the header row has no Tutor_Memo, changing nothing  *)
(* in both cases; otherwise, unless the cell write itself fails, it succeeds, *)
(* and a success has changed exactly the Tutor_Memo cell of the first         *)
(* matching row to m and left no cached Schedule snapshot.                    *)

C7_MemoPost(s, d, m) ==
    LET ws  == SheetAt(remote, Schedule)
        hit(i) == /\ Strip(RowOf(ws, Student_ID, i)) = Strip(s)
                  /\ Strip(RowOf(ws, Date, i)) = Strip(d)
        rows == {i \in DOMAIN ws.rows : hit(i)}
        col  == IndexOf(ws.headers, Tutor_Memo)
        answered == client' = "ok" /\ up /\ lastOp'.msg # ErrorSavingMemo("APIError")
    IN
    /\ (answered /\ rows = {}) =>
            ~lastOp'.ok /\ lastOp'.msg = ClassNotFound
    /\ (answered /\ rows # {} /\ col = 0) =>
            ~lastOp'.ok /\ lastOp'.msg = MemoColumnNotFound
    /\ (answered /\ rows # {} /\ col # 0) =>
            lastOp'.ok /\ lastOp'.msg = MemoSaved
    /\ ~lastOp'.ok => remote' = remote /\ lastOp'.writes = <<>>
    /\ lastOp'.ok =>
            LET first == CHOOSE i \in rows : \A j \in rows : i <= j
                ws2 == SheetAt(remote', Schedule)
            IN
            /\ \A k \in DOMAIN remote : k # WorksheetIndex(remote, Schedule) =>
                    remote'[k] = remote[k]
            /\ ws2.title = ws.title /\ ws2.headers = ws.headers
            /\ DOMAIN ws2.rows = DOMAIN ws.rows
            /\ \A i \in DOMAIN ws.rows, c \in DOMAIN ws.headers :
                    ws2.rows[i][c] = IF i = first /\ c = col THEN m ELSE ws.rows[i][c]
            /\ ~cache'[Schedule].present

\* C7: every save_tutor_memo call reports row-not-found, column-not-found or
\* success as above, writing nothing on a failure and exactly one cell on success
C7_MemoOutcomes ==
    [][(lastOp'.op = "memo" /\
        SaveTutorMemo(lastOp'.student_id, lastOp'.class_date, lastOp'.memo_text))
          => C7_MemoPost(lastOp'.student_id, lastOp'.class_date, lastOp'.memo_text)]_vars

\* A memo saved through a padded student id
C7_Witness ==
    /\ lastOp.op = "memo"
    /\ lastOp.ok
    /\ lastOp.student_id = Pad(S("s1"))
    /\ SheetAt(remote, Schedule).rows[1][5] = S("note")

C7_WitnessNoColumn ==
    /\ lastOp.op = "memo"
    /\ lastOp.msg = MemoColumnNotFound

-----------------------------------------------------------------------------
(* authenticate_tutor alone, over the Tutors sheets of up to MaxTutorRows rows *)

MaxTutorRows == 2

StoredIds == {S("T1"), Pad(S("T1")), S("T2")}

StoredPasswords == {S("pw"), Pad(S("pw")), S("no")}

IdArgs == {S("T1"), Pad(S("T1")), S("T9")}

PasswordArgs == {S("pw"), Pad(S("pw")), S("bad")}

\* The header rows a Tutors sheet may have: complete (one name padded), or one
\* column short
TutorHeaders ==
    { <<Pad(Tutor_ID), Password, Name>>, <<Tutor_ID, Password>>,
      <<Tutor_ID, Name>>, <<Password, Name>> }

\* The cell of row `i` under header `h`
TutorCell(h, i, id, pw) ==
    IF Strip(h) = Tutor_ID THEN id
    ELSE IF Strip(h) = Password THEN pw
    ELSE <<"name", TwoDigits[i]>>

TutorSheets ==
    { [title   |-> Tutors,
       headers |-> hs,
       rows    |-> [i \in 1..n |->
                      [c \in DOMAIN hs |-> TutorCell(hs[c], i, ids[i], pws[i])]]] :
        <<hs, n, ids, pws>> \in
            { <<hs, n, ids, pws>> \in
                TutorHeaders \X (0..MaxTutorRows)
                    \X [1..MaxTutorRows -> StoredIds] \X [1..MaxTutorRows -> StoredPasswords] :
                \A i \in (n + 1)..MaxTutorRows :
                    ids[i] = S("T1") /\ pws[i] = S("pw") } }

InitAuth ==
    /\ remote \in {<<ws>> : ws \in TutorSheets}
    /\ up \in BOOLEAN
    /\ client = "unset"
    /\ cache = EmptyCache
    /\ today = Day2
    /\ emptyRaises \in BOOLEAN
    /\ lastOp = [op |-> "start"]
    /\ session = NewSession

NextAuth ==
    \/ Refresh
    \/ \E id \in IdArgs, pw \in PasswordArgs : AuthenticateTutor(id, pw)

SpecAuth == InitAuth /\ [][NextAuth]_vars

-----------------------------------------------------------------------------
(* C8 as claimed: whatever the Tutors sheet holds, authenticate_tutor(id, pw)  *)
(* answers "Invalid Tutor ID" exactly when no row matches the stripped id,     *)
(* "Invalid password" exactly when the matching row's stripped password        *)
(* differs, and otherwise succeeds with that row's Name.                       *)

\* The Tutors sheet as the load presents it, and the rows matching an id
TutorsFrame == FrameOf(SheetAt(remote, Tutors))

TutorField(i, col) ==
    IF HasColumn(TutorsFrame, col) THEN Cell(TutorsFrame, i, col) ELSE NoneStr

MatchingTutors(id) ==
    {i \in DOMAIN SheetAt(remote, Tutors).rows : Strip(TutorField(i, Tutor_ID)) = Strip(id)}

FirstOf(rows) == CHOOSE i \in rows : \A j \in rows : i <= j

C8_Outcome(id, pw) ==
    LET m == MatchingTutors(id) IN
    /\ (lastOp.msg = InvalidTutorID /\ ~lastOp.ok) <=> m = {}
    /\ (lastOp.msg = InvalidPassword /\ ~lastOp.ok) <=>
            (m # {} /\ Strip(TutorField(FirstOf(m), Password)) # Strip(pw))
    /\ lastOp.ok <=> (m # {} /\ Strip(TutorField(FirstOf(m), Password)) = Strip(pw))
    /\ lastOp.ok =>
            lastOp.msg = IF HasColumn(TutorsFrame, Name)
                         THEN TutorField(FirstOf(m), Name) ELSE id

\* C8 as claimed: after every authenticate_tutor call that read the store, the
\* outcome is decided by the matching rows alone, whatever the sheet holds
C8_AsClaimed ==
    (lastOp.op = "auth" /\ lastOp.fetched /\ client = "ok" /\ up) =>
        C8_Outcome(lastOp.tutor_id, lastOp.password)

(* C8 as amended: the three outcomes are as claimed when the Tutors table      *)
(* loads, has rows and has both the Tutor_ID and the Password column, the row  *)
(* consulted being the first whose stripped id matches; an unloadable or empty *)
(* table gives the failure "Cannot access Tutors database" and a missing       *)
(* column a missing-column failure; success always rests on a row matching     *)
(* both id and password.                                                       *)

C8_Authenticate ==
    lastOp.op = "auth" =>
        LET ws == SheetAt(remote, Tutors)
            id == lastOp.tutor_id
            pw == lastOp.password
        IN
        /\ (~lastOp.loaded \/ ws.rows = <<>>) =>
                ~lastOp.ok /\ lastOp.msg = CannotAccessTutors
        /\ (lastOp.loaded /\ ws.rows # <<>> /\ ~HasColumn(TutorsFrame, Tutor_ID)) =>
                ~lastOp.ok /\ lastOp.msg = MissingTutorID
        /\ (lastOp.loaded /\ ws.rows # <<>> /\ HasColumn(TutorsFrame, Tutor_ID)
                /\ ~HasColumn(TutorsFrame, Password)) =>
                ~lastOp.ok /\ lastOp.msg = MissingPassword
        /\ (lastOp.loaded /\ ws.rows # <<>> /\ HasColumn(TutorsFrame, Tutor_ID)
                /\ HasColumn(TutorsFrame, Password)) => C8_Outcome(id, pw)
        /\ lastOp.ok =>
                \E i \in DOMAIN ws.rows :
                    /\ Strip(TutorField(i, Tutor_ID)) = Strip(id)
                    /\ Strip(TutorField(i, Password)) = Strip(pw)

\* A padded id and password accepted against a padded stored id, the second
\* row with that id holding another password
C8_Witness ==
    /\ lastOp.op = "auth"
    /\ lastOp.ok
    /\ lastOp.tutor_id = Pad(S("T1"))
    /\ lastOp.password = S("pw")
    /\ Cardinality(MatchingTutors(S("T1"))) = 2
    /\ TutorField(1, Password) = Pad(S("pw"))
    /\ TutorField(2, Password) = S("no")

-----------------------------------------------------------------------------
(* get_student_plan alone, over the states of the Curriculum_Library sheet *)

CurriculumOther == [CurriculumSheet EXCEPT !.rows = << <<S("t7"), S("U7"), S("SU7"), S("Z")>> >>]

CurriculumEmpty == [CurriculumSheet EXCEPT !.rows = <<>>]

PlanBooks ==
    { <<StudentPlanSheet, CurriculumSheet>>, <<StudentPlanSheet, CurriculumOther>>,
      <<StudentPlanSheet, CurriculumEmpty>>, <<StudentPlanSheet>> }

InitPlan ==
    /\ remote \in PlanBooks
    /\ up = TRUE
    /\ client = "unset"
    /\ cache = EmptyCache
    /\ today = Day2
    /\ emptyRaises \in BOOLEAN
    /\ lastOp = [op |-> "start"]
    /\ session = NewSession

NextPlan ==
    \/ Tick
    \/ StoreDown
    \/ StoreUp
    \/ Refresh
    \/ \E s \in StudentArgs : GetStudentPlan(s)

SpecPlan == InitPlan /\ [][NextPlan]_vars

-----------------------------------------------------------------------------
(* C9: whenever Student_Plan is available, get_student_plan(s) returns one     *)
(* record for each of its rows whose stripped Student_ID equals stripped s,    *)
(* whatever the state of Curriculum_Library, raises nothing, and a row whose   *)
(* Topic_ID has no curriculum entry has no Sub_Unit_Name and no Unit_Name.     *)

\* A derived field that is absent, missing or blank
EmptyField(df, i, col) ==
    ~HasColumn(df, col) \/ Cell(df, i, col) \in {NaN, Blank}

HasCurriculumEntry(topic) ==
    /\ WorksheetIndex(remote, Curriculum_Library) # 0
    /\ \E row \in Range(SheetAt(remote, Curriculum_Library).rows) :
            Strip(row[1]) = Strip(topic)

C9_LeftJoin ==
    (lastOp.op = "plan" /\ ~lastOp.planNone) =>
        LET ws   == SheetAt(remote, Student_Plan)
            mine == {i \in DOMAIN ws.rows :
                        Strip(RowOf(ws, Student_ID, i)) = Strip(lastOp.student_id)}
        IN
        /\ ~lastOp.raised
        /\ Len(lastOp.df.data) = Cardinality(mine)
        /\ \A i \in DOMAIN lastOp.df.data :
                ~HasCurriculumEntry(Cell(lastOp.df, i, Topic_ID)) =>
                    /\ EmptyField(lastOp.df, i, Sub_Unit_Name)
                    /\ EmptyField(lastOp.df, i, Unit_Name)

-----------------------------------------------------------------------------
(* C10: an identifier argument padded with whitespace selects what the bare    *)
(* argument selects, in all five lookups.                                      *)

\* What each read returns for an argument, on the sheets as they are now
LoadedNow(name) ==
    IF ResolveWorksheet(remote, name) = 0 THEN NoneResult
    ELSE Some(FrameOf(remote[ResolveWorksheet(remote, name)]))

C10_ReadsIgnorePadding ==
    /\ \A id \in {S("T1"), S("T2"), S("T9")}, pw \in {S("pw1"), S("pw2")} :
          AuthenticateOn(LoadedNow(Tutors), Pad(id), Pad(pw))
              = AuthenticateOn(LoadedNow(Tutors), id, pw)
    /\ \A id \in {S("T1"), S("T2"), S("T9")} :
          TutorClassesOf(LoadedNow(Schedule), LoadedNow(StudentsSp), Pad(id))
              = TutorClassesOf(LoadedNow(Schedule), LoadedNow(StudentsSp), id)
    /\ \A s \in {S("s1"), S("s2"), S("s0")} :
          StudentPlanOf(LoadedNow(Student_Plan), LoadedNow(Curriculum_Library), Pad(s))
              = StudentPlanOf(LoadedNow(Student_Plan), LoadedNow(Curriculum_Library), s)
    /\ \A s \in {S("s1"), S("s2")}, d \in {StrftimeDMY(Day1), StrftimeDMY(Day2)} :
          MemoRow(SheetAt(remote, Schedule), Pad(s), Pad(d))
              = MemoRow(SheetAt(remote, Schedule), s, d)

\* The mark_topic_complete call that returned found a row exactly when a row
\* carries the stripped Plan_ID
C10_MarkIgnoresPadding ==
    (lastOp.op = "mark" /\ client = "ok"
        /\ lastOp.msg \in {TopicMarked, PlanNotFound}) =>
        LET ws == SheetAt(remote, Student_Plan) IN
        (lastOp.msg = PlanNotFound) <=>
            (\A i \in DOMAIN ws.rows :
                Strip(RowOf(ws, Plan_ID, i)) # Strip(lastOp.plan_id))

\* C10: the four reads and save_tutor_memo ignore padding of their argument, and
\* so does mark_topic_complete
C10_WhitespaceInsensitive == C10_ReadsIgnorePadding /\ C10_MarkIgnoresPadding

-----------------------------------------------------------------------------
(* C11: every record get_student_plan returns carries a Content_Link: the      *)
(* row's Topic_Content when that is present and not blank, otherwise the       *)
(* Textbook_Ref of a Curriculum_Library entry with the same stripped Topic_ID, *)
(* blank when there is none, whatever Curriculum_Library holds.                *)

\* The stripped Textbook_Ref values of the curriculum entries for a topic
TextbookRefs(topic) ==
    IF WorksheetIndex(remote, Curriculum_Library) = 0 THEN {}
    ELSE LET ws == SheetAt(remote, Curriculum_Library) IN
         {Strip(RowOf(ws, Textbook_Ref, i)) :
             i \in {j \in DOMAIN ws.rows : Strip(RowOf(ws, Topic_ID, j)) = Strip(topic)}}

C11_LinkOf(df, i) ==
    LET tc == IF HasColumn(df, Topic_Content) THEN Cell(df, i, Topic_Content) ELSE Blank
        refs == TextbookRefs(Cell(df, i, Topic_ID))
    IN /\ HasColumn(df, Content_Link)
       /\ IF Strip(tc) # Blank THEN Cell(df, i, Content_Link) = tc
          ELSE IF refs = {} THEN Cell(df, i, Content_Link) = Blank
          ELSE Cell(df, i, Content_Link) \in refs

\* C11: after every get_student_plan call that returned records, each record's
\* Content_Link is resolved by the Topic_Content-then-Textbook_Ref rule
C11_ContentLink ==
    (lastOp.op = "plan" /\ ~lastOp.raised) =>
        \A i \in DOMAIN lastOp.df.data : C11_LinkOf(lastOp.df, i)

\* The same rule restricted to the calls that loaded a Curriculum_Library with rows
C11_WhenCurriculumHasRows ==
    (/\ lastOp.op = "plan" /\ ~lastOp.raised
     /\ WorksheetIndex(remote, Curriculum_Library) # 0
     /\ SheetAt(remote, Curriculum_Library).rows # <<>>) =>
        \A i \in DOMAIN lastOp.df.data : C11_LinkOf(lastOp.df, i)

-----------------------------------------------------------------------------
(* get_tutor_classes and the class card, over the states of the Students sheet *)

\* cls.get('Student_Name', cls['Student_ID']) of show_class_card
DisplayName(df, i) ==
    IF HasColumn(df, Student_Name) THEN Cell(df, i, Student_Name)
    ELSE Cell(df, i, Student_ID)

StudentsPartial == [StudentsSheet EXCEPT !.rows = << <<S("s1"), S("Sam")>> >>]

StudentsEmpty == [StudentsSheet EXCEPT !.rows = <<>>]

ClassBooks ==
    { <<StudentsSheet, ScheduleSheet>>, <<StudentsPartial, ScheduleSheet>>,
      <<StudentsEmpty, ScheduleSheet>>, <<ScheduleSheet>> }

ClassTutorArgs == {S("T1"), Pad(S("T1")), S("T9")}

InitClasses ==
    /\ remote \in ClassBooks
    /\ up = TRUE
    /\ client = "unset"
    /\ cache = EmptyCache
    /\ today = Day2
    /\ emptyRaises \in BOOLEAN
    /\ lastOp = [op |-> "start"]
    /\ session = NewSession

NextClasses ==
    \/ Tick
    \/ StoreDown
    \/ StoreUp
    \/ Refresh
    \/ \E t \in ClassTutorArgs : GetTutorClasses(t)

SpecClasses == InitClasses /\ [][NextClasses]_vars

-----------------------------------------------------------------------------
(* C12: get_tutor_classes(t), when Schedule loads, returns exactly the         *)
(* Schedule rows whose stripped Tutor_ID equals stripped t, and the name shown *)
(* for each is the Student_Name of a Students row with the same stripped       *)
(* Student_ID, or the row's own Student_ID when no Students row matches; it is *)
(* never a missing value.                                                      *)

\* The stripped Student_Name values of the Students rows for a student id
StudentNames(student_id) ==
    IF ResolveWorksheet(remote, StudentsSp) = 0 THEN {}
    ELSE LET df == FrameOf(remote[ResolveWorksheet(remote, StudentsSp)]) IN
         {Strip(Cell(df, i, Student_Name)) :
             i \in {j \in DOMAIN df.data : Strip(Cell(df, j, Student_ID)) = Strip(student_id)}}

C12_TutorClasses ==
    (lastOp.op = "classes" /\ ~lastOp.schedNone) =>
        LET ws   == SheetAt(remote, Schedule)
            mine == SelectSeq(ws.rows,
                        LAMBDA row : Strip(RowGet(ws.headers, row, Tutor_ID))
                                        = Strip(lastOp.tutor_id))
            df   == lastOp.df
        IN
        /\ ~lastOp.raised
        /\ Len(df.data) = Len(mine)
        /\ \A i \in DOMAIN df.data :
              /\ \A c \in DOMAIN ws.headers : Cell(df, i, ws.headers[c]) = mine[i][c]
              /\ DisplayName(df, i) # NaN
              /\ LET names == StudentNames(Cell(df, i, Student_ID)) IN
                 IF names = {} THEN DisplayName(df, i) = Cell(df, i, Student_ID)
                 ELSE DisplayName(df, i) \in names

-----------------------------------------------------------------------------
(* parse_date: datetime.strptime under four formats, tried in order *)

OneDigit == <<"1", "2", "3", "4", "5", "6", "7", "8", "9">>

\* The number a %d or %m field reads from a token: one or two digits, 0 if neither
NumberOf(tok) ==
    IF IndexOf(TwoDigits, tok) # 0 THEN IndexOf(TwoDigits, tok)
    ELSE IndexOf(OneDigit, tok)

\* The year a %Y field reads from a token (four digits), 0 if it is not one
YearOf(tok) ==
    IF \E y \in Years : YearText(y) = tok
    THEN CHOOSE y \in Years : YearText(y) = tok
    ELSE 0

IsLeap(y) == (y % 4 = 0 /\ y % 100 # 0) \/ y % 400 = 0

DaysIn(m, y) ==
    IF m = 2 THEN (IF IsLeap(y) THEN 29 ELSE 28)
    ELSE IF m \in {4, 6, 9, 11} THEN 30 ELSE 31

\* What parse_date returns for None
NoDate == [year |-> 0, month |-> 0, day |-> 0]

\* The formats of parse_date, in the order it tries them
FormatsMonthFirst ==
    << [sep |-> "/", order |-> "mdy"], [sep |-> "-", order |-> "ymd"],
       [sep |-> "/", order |-> "dmy"], [sep |-> "-", order |-> "dmy"] >>

Formats ==
    << [sep |-> "/", order |-> "dmy"], [sep |-> "-", order |-> "ymd"],
       [sep |-> "/", order |-> "mdy"], [sep |-> "-", order |-> "dmy"] >>

\* datetime.strptime(s, fmt).date(), NoDate where it raises ValueError
Strptime(s, fmt) ==
    IF Len(s) # 5 \/ s[2] # fmt.sep \/ s[4] # fmt.sep THEN NoDate
    ELSE LET y == YearOf(IF fmt.order = "ymd" THEN s[1] ELSE s[5])
             m == NumberOf(IF fmt.order = "mdy" THEN s[1] ELSE s[3])
             d == NumberOf(IF fmt.order = "dmy" THEN s[1]
                           ELSE IF fmt.order = "mdy" THEN s[3] ELSE s[5])
         IN IF y = 0 \/ m \notin 1..12 \/ d < 1 THEN NoDate
            ELSE IF d > DaysIn(m, y) THEN NoDate
            ELSE [year |-> y, month |-> m, day |-> d]

\* parse_date(date_str): a missing value gives None; otherwise the first format
\* that parses the stripped text decides
parse_date(date_str) ==
    IF date_str = NaN THEN NoDate
    ELSE LET s  == Strip(date_str)
             ok == {k \in DOMAIN Formats : Strptime(s, Formats[k]) # NoDate}
         IN IF ok = {} THEN NoDate
            ELSE Strptime(s, Formats[CHOOSE k \in ok : \A j \in ok : k <= j])

-----------------------------------------------------------------------------
(* parse_date alone, over date texts built from a few fields and separators *)

FieldTokens == {"02", "03", "04", "12", "13", "29", "31", "3", "2024", "2025"}

Separators == {"/", "-"}

FieldTexts ==
    {<<a, s1, b, s2, c>> : <<a, s1, b, s2, c>> \in
        FieldTokens \X Separators \X FieldTokens \X Separators \X FieldTokens}

DateInputs ==
    FieldTexts \cup {Pad(x) : x \in FieldTexts}
        \cup {NaN, Blank, <<WS>>, S("soon"), <<"03", "/", "04">>,
              <<"03", WS, "/", "04", "/", "2024">>}

\* parse_date applied to the input at hand
ParseDate ==
    /\ lastOp.op = "input"
    /\ lastOp' = [op |-> "parse", date_str |-> lastOp.date_str,
                  result |-> parse_date(lastOp.date_str)]
    /\ UNCHANGED <<remote, up, client, cache, today, emptyRaises, session>>

InitParse ==
    /\ remote = <<>>
    /\ up = TRUE
    /\ client = "unset"
    /\ cache = EmptyCache
    /\ today = Day2
    /\ emptyRaises = FALSE
    /\ lastOp \in {[op |-> "input", date_str |-> x] : x \in DateInputs}
    /\ session = NewSession

NextParse == ParseDate

SpecParse == InitParse /\ [][NextParse]_vars

-----------------------------------------------------------------------------
(* C13: parse_date returns, for every input, either no date or one calendar    *)
(* date: the date that the stripped text denotes under the first of the        *)
(* patterns day/month/year, year-month-day, month/day/year, day-month-year     *)
(* under which it denotes a date at all; missing, blank and unparseable input  *)
(* gives no date.                                                              *)

CalendarDates ==
    {d \in [year : Years, month : 1..12, day : 1..31] : d.day <= DaysIn(d.month, d.year)}

\* The ways of writing the number n in a day or month field
FieldWritings(n) == {TwoDigits[n]} \cup (IF n < 10 THEN {OneDigit[n]} ELSE {})

\* The texts that denote the date d under each pattern
DayMonthYear(d, sep) ==
    {<<a, sep, b, sep, YearText(d.year)>> :
        <<a, b>> \in FieldWritings(d.day) \X FieldWritings(d.month)}

MonthDayYear(d, sep) ==
    {<<a, sep, b, sep, YearText(d.year)>> :
        <<a, b>> \in FieldWritings(d.month) \X FieldWritings(d.day)}

YearMonthDay(d, sep) ==
    {<<YearText(d.year), sep, a, sep, b>> :
        <<a, b>> \in FieldWritings(d.month) \X FieldWritings(d.day)}

\* The dates a text denotes under the k-th pattern of the claim
DenotedUnder(k, s) ==
    {d \in CalendarDates :
        s \in (IF k = 1 THEN DayMonthYear(d, "/")
               ELSE IF k = 2 THEN YearMonthDay(d, "-")
               ELSE IF k = 3 THEN MonthDayYear(d, "/")
               ELSE DayMonthYear(d, "-"))}

C13_Post(x, result) ==
    LET s  == Strip(x)
        ks == {k \in 1..4 : x # NaN /\ DenotedUnder(k, s) # {}}
    IN IF ks = {} THEN result = NoDate
       ELSE LET k == CHOOSE k \in ks : \A j \in ks : k <= j
            IN DenotedUnder(k, s) = {result}

\* C13: every parse_date call returns what the first matching pattern denotes
C13_ParseDate ==
    lastOp.op = "parse" => C13_Post(lastOp.date_str, lastOp.result)

\* 03/04/2024, valid under both slash patterns, read as the 3rd of April
C13_Witness ==
    /\ lastOp.op = "parse"
    /\ lastOp.date_str = Pad(<<"03", "/", "04", "/", "2024">>)
    /\ lastOp.result = [year |-> 2024, month |-> 4, day |-> 3]

\* 12/31/2024, valid only under month/day/year, read as the 31st of December
C13_WitnessMonthFirst ==
    /\ lastOp.op = "parse"
    /\ lastOp.date_str = <<"12", "/", "31", "/", "2024">>
    /\ lastOp.result = [year |-> 2024, month |-> 12, day |-> 31]

-----------------------------------------------------------------------------
(* The five operations on spreadsheets that lack a table, its rows or a column *)

\* The sheet without the column under header `col`
WithoutColumn(ws, col) ==
    LET k == IndexOf(ws.headers, col)
        drop(seq) == [j \in 1..(Len(seq) - 1) |-> seq[IF j < k THEN j ELSE j + 1]]
    IN [ws EXCEPT !.headers = drop(ws.headers),
                  !.rows = [i \in DOMAIN ws.rows |-> drop(ws.rows[i])]]

FaultBooks ==
    { Book,
      [Book EXCEPT ![3] = WithoutColumn(ScheduleSheet, Tutor_ID)],
      [Book EXCEPT ![4] = WithoutColumn(StudentPlanSheet, Status)],
      [Book EXCEPT ![5] = WithoutColumn(CurriculumSheet, Textbook_Ref)],
      [Book EXCEPT ![4] = [StudentPlanSheet EXCEPT !.rows = <<>>]],
      <<TutorsSheet>> }

InitFaults ==
    /\ remote \in FaultBooks
    /\ up = TRUE
    /\ client = "unset"
    /\ cache = EmptyCache
    /\ today = Day2
    /\ emptyRaises \in BOOLEAN
    /\ lastOp = [op |-> "start"]
    /\ session = NewSession

NextFaults ==
    \/ StoreDown
    \/ StoreUp
    \/ Refresh
    \/ AuthenticateTutor(S("T1"), S("pw1"))
    \/ GetTutorClasses(S("T1"))
    \/ GetStudentPlan(S("s1"))
    \/ SaveTutorMemo(S("s1"), StrftimeDMY(Day1), S("note"))
    \/ MarkTopicComplete(S("P1"), S("T1"))

SpecFaults == InitFaults /\ [][NextFaults]_vars

-----------------------------------------------------------------------------
(* C14: every operation returns an outcome to its caller, whatever the state   *)
(* of the store: none of them raises.                                          *)

\* C14: get_student_plan and get_tutor_classes, the two operations without an
\* except clause of their own, return too (save_tutor_memo and mark_topic_complete
\* turn every exception into a failure outcome, authenticate_tutor tests for the
\* columns it reads)
C14_NothingEscapes ==
    lastOp.op \in {"plan", "classes"} => ~lastOp.raised

-----------------------------------------------------------------------------
(* load_sheet_data on spreadsheets whose sheet titles differ in whitespace *)

PaddedTitles == {Students, StudentsSp, <<WS, "Students">>}

\* A one-row sheet under `title`, its row naming the sheet
TitledSheet(title) ==
    [title |-> title, headers |-> <<Student_ID, Student_Name>>,
     rows |-> << <<S("s1"), title>> >>]

\* Every arrangement of sheets with distinct titles out of PaddedTitles, after a
\* Schedule sheet
ResolveBooks ==
    { <<ScheduleSheet>> \o [i \in DOMAIN ts |-> TitledSheet(ts[i])] :
        ts \in { t \in UNION {[1..n -> PaddedTitles] : n \in 0..3} :
                    \A i, j \in DOMAIN t : i # j => t[i] # t[j] } }

InitResolve ==
    /\ remote \in ResolveBooks
    /\ up = TRUE
    /\ client = "unset"
    /\ cache = EmptyCache
    /\ today = Day2
    /\ emptyRaises \in BOOLEAN
    /\ lastOp = [op |-> "start"]
    /\ session = NewSession

NextResolve ==
    \/ Tick
    \/ StoreDown
    \/ StoreUp
    \/ Refresh
    \/ \E name \in {Students, StudentsSp} : LoadSheetData(name)

SpecResolve == InitResolve /\ [][NextResolve]_vars

-----------------------------------------------------------------------------
(* C15: a load_sheet_data(name) call that reads the store returns the sheet    *)
(* titled exactly `name` if there is one, otherwise the first sheet whose      *)
(* stripped title equals the stripped name, otherwise nothing, reporting the   *)
(* name asked for and the titles there are; so "Students" and "Students " read *)
(* the same sheet when one sheet alone has that stripped title.                *)

ExactlyTitled(name) == {i \in DOMAIN remote : remote[i].title = name}

StrippedTitled(name) == {i \in DOMAIN remote : Strip(remote[i].title) = Strip(name)}

C15_LoadPost(name) ==
    (lastOp'.fetched /\ client' = "ok" /\ up) =>
        LET exact == ExactlyTitled(name)
            near  == StrippedTitled(name)
            v     == lastOp'.value
        IN
        /\ exact # {} =>
              /\ ~v.isNone /\ lastOp'.report = NoReport
              /\ \E i \in exact : v.df.data = remote[i].rows
        /\ (exact = {} /\ near # {}) =>
              /\ ~v.isNone /\ lastOp'.report = NoReport
              /\ v.df.data = remote[CHOOSE i \in near : \A j \in near : i <= j].rows
        /\ near = {} =>
              /\ v.isNone
              /\ lastOp'.report.kind = "Sheet not found"
              /\ lastOp'.report.name = name
              /\ lastOp'.report.available = [k \in DOMAIN remote |-> remote[k].title]
        /\ Cardinality(near) = 1 =>
              /\ LoadBody("ok", Students) = LoadBody("ok", StudentsSp)
              /\ v = LoadBody("ok", Students)

\* C15: every load_sheet_data call that reads the store resolves the sheet in
\* the order exact title, first stripped title, not found
C15_ResolutionOrder ==
    [][(lastOp'.op = "load" /\ LoadSheetData(lastOp'.name)) => C15_LoadPost(lastOp'.name)]_vars

\* "Students" read from the first of two sheets whose titles only strip to it
C15_Witness ==
    /\ lastOp.op = "load"
    /\ lastOp.name = Students
    /\ lastOp.fetched
    /\ ExactlyTitled(Students) = {}
    /\ Cardinality(StrippedTitled(Students)) = 2
    /\ ~lastOp.value.isNone
    /\ lastOp.value.df.data = remote[2].rows

-----------------------------------------------------------------------------
(* All five operations on the initial spreadsheet, nobody else editing it *)

InitFrame ==
    /\ remote = Book
    /\ up = TRUE
    /\ client = "unset"
    /\ cache = EmptyCache
    /\ today = Day2
    /\ emptyRaises = FALSE
    /\ lastOp = [op |-> "start"]
    /\ session = NewSession

NextFrame ==
    \/ StoreDown
    \/ StoreUp
    \/ Refresh
    \/ AuthenticateTutor(S("T1"), S("pw1"))
    \/ GetTutorClasses(S("T1"))
    \/ GetStudentPlan(S("s1"))
    \/ \E s \in {S("s1"), S("s2")} : SaveTutorMemo(s, Pad(StrftimeDMY(Day1)), S("note"))
    \/ \E p \in {S("P1"), S("P3"), S("NOPE")} : MarkTopicComplete(p, S("T1"))

SpecFrame == InitFrame /\ [][NextFrame]_vars

-----------------------------------------------------------------------------
(* C16: no step of the core adds or removes a sheet, a row or a column; the    *)
(* cells a step changes are Status, Completed_By and Date_Completed of one     *)
(* Student_Plan row carrying the Plan_ID given to mark_topic_complete, or the  *)
(* Tutor_Memo cell of one Schedule row matching the arguments of               *)
(* save_tutor_memo; the reads change nothing.                                  *)

SameShape(book1, book2) ==
    /\ DOMAIN book1 = DOMAIN book2
    /\ \A k \in DOMAIN book1 :
          /\ book1[k].title = book2[k].title
          /\ book1[k].headers = book2[k].headers
          /\ DOMAIN book1[k].rows = DOMAIN book2[k].rows
          /\ \A i \in DOMAIN book1[k].rows :
                DOMAIN book1[k].rows[i] = DOMAIN book2[k].rows[i]

\* The cells <<sheet, row, column>> in which two books of the same shape differ
ChangedCells(book1, book2) ==
    LET cells == UNION { { <<k, i, c>> : <<i, c>> \in
                              (DOMAIN book1[k].rows) \X (DOMAIN book1[k].headers) } :
                         k \in DOMAIN book1 }
    IN {w \in cells : book1[w[1]].rows[w[2]][w[3]] # book2[w[1]].rows[w[2]][w[3]]}

C16_Step ==
    /\ SameShape(remote, remote')
    /\ LET changed == ChangedCells(remote, remote') IN
       changed # {} =>
          \/ /\ lastOp'.op = "mark"
             /\ \E i \in DOMAIN SheetAt(remote, Student_Plan).rows :
                   /\ RowOf(SheetAt(remote, Student_Plan), Plan_ID, i) = lastOp'.plan_id
                   /\ \A w \in changed :
                         /\ w[1] = WorksheetIndex(remote, Student_Plan)
                         /\ w[2] = i
                         /\ SheetAt(remote, Student_Plan).headers[w[3]]
                               \in {Status, Completed_By, Date_Completed}
          \/ /\ lastOp'.op = "memo"
             /\ \E i \in DOMAIN SheetAt(remote, Schedule).rows :
                   /\ Strip(RowOf(SheetAt(remote, Schedule), Student_ID, i))
                         = Strip(lastOp'.student_id)
                   /\ Strip(RowOf(SheetAt(remote, Schedule), Date, i))
                         = Strip(lastOp'.class_date)
                   /\ changed = {<<WorksheetIndex(remote, Schedule), i,
                                   IndexOf(SheetAt(remote, Schedule).headers, Tutor_Memo)>>}

\* C16: every step keeps the shape of the spreadsheet and changes only the
\* cells of the row a mutation targets
C16_FrameEffect == [][C16_Step]_vars

\* A memo saved after a topic was marked: both sheets differ from the initial
\* ones, in those cells only
C16_Witness ==
    /\ lastOp.op = "memo"
    /\ lastOp.ok
    /\ SameShape(Book, remote)
    /\ ChangedCells(Book, remote) = {<<4, 1, 4>>, <<4, 1, 5>>, <<4, 1, 6>>, <<3, 1, 5>>}

-----------------------------------------------------------------------------
(* The two mutations while another editor moves the business keys to other    *)
(* rows and the cache still holds the earlier snapshots                        *)

InitTarget ==
    /\ remote = Book
    /\ up = TRUE
    /\ client = "unset"
    /\ cache = EmptyCache
    /\ today = Day2
    /\ emptyRaises = FALSE
    /\ lastOp = [op |-> "start"]
    /\ session = NewSession

NextTarget ==
    \/ Refresh
    \/ GetStudentPlan(S("s1"))
    \/ LoadSheetData(Schedule)
    \/ ExternalEdit(Student_Plan, 2, Plan_ID, S("P0"))
    \/ ExternalEdit(Student_Plan, 4, Plan_ID, S("P1"))
    \/ ExternalEdit(Schedule, 2, Student_ID, S("s9"))
    \/ MarkTopicComplete(S("P1"), S("T1"))
    \/ SaveTutorMemo(S("s1"), StrftimeDMY(Day1), S("note"))

SpecTarget == InitTarget /\ [][NextTarget]_vars

-----------------------------------------------------------------------------
(* C17: the cells a mutation writes lie in the first row of the remote table,  *)
(* as it is when the mutation reads it, whose key matches: Plan_ID equal to p  *)
(* for mark_topic_complete, stripped Student_ID and Date equal to the stripped *)
(* arguments for save_tutor_memo; whatever the cache holds.                    *)

\* The first of a set of row numbers
FirstRow(rows) == CHOOSE i \in rows : \A j \in rows : i <= j

C17_MarkPost(p) ==
    LET ws   == SheetAt(remote, Student_Plan)
        rows == {i \in DOMAIN ws.rows : RowOf(ws, Plan_ID, i) = p}
    IN /\ lastOp'.writes # <<>> => rows # {}
       /\ \A n \in DOMAIN lastOp'.writes : lastOp'.writes[n][1] = FirstRow(rows) + 1
       /\ \A w \in ChangedCells(remote, remote') :
             w[1] = WorksheetIndex(remote, Student_Plan) /\ w[2] = FirstRow(rows)

C17_MemoPost(s, d) ==
    LET ws   == SheetAt(remote, Schedule)
        rows == {i \in DOMAIN ws.rows :
                    /\ Strip(RowOf(ws, Student_ID, i)) = Strip(s)
                    /\ Strip(RowOf(ws, Date, i)) = Strip(d)}
    IN /\ lastOp'.writes # <<>> => rows # {}
       /\ \A n \in DOMAIN lastOp'.writes : lastOp'.writes[n][1] = FirstRow(rows) + 1
       /\ \A w \in ChangedCells(remote, remote') :
             w[1] = WorksheetIndex(remote, Schedule) /\ w[2] = FirstRow(rows)

\* C17: every mutation writes into the first matching row of the table as the
\* store holds it at the call, not as a cached snapshot shows it
C17_FreshRowTargeting ==
    [][/\ (lastOp'.op = "mark" /\ MarkTopicComplete(lastOp'.plan_id, lastOp'.tutor_id))
            => C17_MarkPost(lastOp'.plan_id)
       /\ (lastOp'.op = "memo" /\
           SaveTutorMemo(lastOp'.student_id, lastOp'.class_date, lastOp'.memo_text))
            => C17_MemoPost(lastOp'.student_id, lastOp'.class_date)]_vars

\* A mark wrote into sheet row 4, where P1 now is, while the cached snapshot
\* still shows P1 in its first record
C17_Witness ==
    /\ lastOp.op = "mark"
    /\ lastOp.writes # <<>>
    /\ lastOp.writes[1][1] = 4
    /\ SheetAt(remote, Student_Plan).rows[3][4] = Completed
    /\ cache[Student_Plan].present
    /\ ~cache[Student_Plan].value.isNone
    /\ Cell(cache[Student_Plan].value.df, 1, Plan_ID) = S("P1")

\* A memo written into the second of the Schedule rows, the first match once
\* the first row was given to another student
C17_WitnessMemo ==
    /\ lastOp.op = "memo"
    /\ lastOp.ok
    /\ lastOp.writes[1][1] = 3
    /\ SheetAt(remote, Schedule).rows[1][1] = S("s9")
    /\ SheetAt(remote, Schedule).rows[2][5] = S("note")

-----------------------------------------------------------------------------
(* show_dashboard: the three groups of a tutor's classes *)

\* The days of year y that precede month m
RECURSIVE DaysBeforeMonth(_, _)
DaysBeforeMonth(m, y) ==
    IF m = 1 THEN 0 ELSE DaysBeforeMonth(m - 1, y) + DaysIn(m - 1, y)

\* date.toordinal(): the day count that orders dates and that timedelta adds to
toordinal(d) ==
    LET y == d.year - 1 IN
    365 * y + (y \div 4) - (y \div 100) + (y \div 400)
        + DaysBeforeMonth(d.month, d.year) + d.day

\* timedelta(days=7) of next_7_days
UpcomingDays == 7

\* head(50) of the Past tab
PastLimit == 50

\* lambda x: parse_date(x) == today
IsToday(x, t) == parse_date(x) = t

\* lambda x: parse_date(x) and today < parse_date(x) <= next_7_days, where it is True
IsUpcoming(x, t) ==
    LET d == parse_date(x) IN
    d # NoDate /\ toordinal(t) < toordinal(d)
               /\ toordinal(d) <= toordinal(t) + UpcomingDays

\* lambda x: parse_date(x) and parse_date(x) < today, where it is True
IsPast(x, t) ==
    LET d == parse_date(x) IN d # NoDate /\ toordinal(d) < toordinal(t)

\* Both lambdas of the Upcoming and Past tabs give None, not False, for a text
\* that does not parse, and a frame indexed by a mask holding None raises ValueError
MaskHasNone(df) == \E i \in DOMAIN df.data : parse_date(Cell(df, i, Date)) = NoDate

\* classes_df[mask]: the positions of the rows whose mask entry is True (`rows`),
\* in frame order
Kept(df, rows) ==
    SelectSeq([i \in DOMAIN df.data |-> i], LAMBDA i : i \in rows)

TodayRows(df, t) == {i \in DOMAIN df.data : IsToday(Cell(df, i, Date), t)}

UpcomingRows(df, t) == {i \in DOMAIN df.data : IsUpcoming(Cell(df, i, Date), t)}

PastRows(df, t) == {i \in DOMAIN df.data : IsPast(Cell(df, i, Date), t)}

\* The tokens of a date text in the order of their characters' code points
TokenOrder ==
    <<" ", "-", "/", "01", "02", "03", "04", "05", "06", "07", "08", "09", "1",
      "10", "11", "12", "13", "14", "15", "16", "17", "18", "19", "2", "20",
      "2024", "2025", "21", "22", "23", "24", "25", "26", "27", "28", "29", "3",
      "30", "31", "4", "5", "6", "7", "8", "9">>

\* a <= b as Python compares two str values: at the first place they differ,
\* or the shorter one first when it is a prefix of the other
TextLeq(a, b) ==
    \/ a = b
    \/ \E i \in 1..(Len(b)) :
          /\ \A j \in 1..(i - 1) : j <= Len(a) /\ a[j] = b[j]
          /\ \/ i = Len(a) + 1
             \/ i <= Len(a) /\ IndexOf(TokenOrder, a[i]) < IndexOf(TokenOrder, b[i])

\* sort_values('Date', ascending=...) of the kept rows: every arrangement ordered
\* by the Date text (rows with the same text may come in either order)
SortedByDateText(df, kept, ascending) ==
    {f \in [DOMAIN kept -> Range(kept)] :
        /\ \A i, j \in DOMAIN kept : i # j => f[i] # f[j]
        /\ \A i, j \in DOMAIN kept : i < j =>
              IF ascending THEN TextLeq(Cell(df, f[i], Date), Cell(df, f[j], Date))
              ELSE TextLeq(Cell(df, f[j], Date), Cell(df, f[i], Date))}

\* head(n)
HeadRows(rows, n) == SubSeq(rows, 1, IF Len(rows) < n THEN Len(rows) ELSE n)

NotShown == [raised |-> FALSE, tabs |-> FALSE, grouped |-> FALSE,
             todayGroup |-> <<>>, upcoming |-> <<>>, past |-> <<>>]

\* What show_dashboard shows for the classes get_tutor_classes gave it on day t:
\* each tab filters them by the parsed Date; the Upcoming and Past tabs sort what
\* they keep by the Date column. One record per order the sorts may produce.
DashboardOf(res, t) ==
    LET df == res.df IN
    IF res.raised THEN {[NotShown EXCEPT !.raised = TRUE]}
    ELSE IF IsEmpty(df) THEN {NotShown}
    ELSE IF ~HasColumn(df, Date) THEN {[NotShown EXCEPT !.raised = TRUE, !.tabs = TRUE]}
    ELSE IF MaskHasNone(df)
    THEN {[NotShown EXCEPT !.raised = TRUE, !.tabs = TRUE,
                           !.todayGroup = Kept(df, TodayRows(df, t))]}
    ELSE {[raised |-> FALSE, tabs |-> TRUE, grouped |-> TRUE,
           todayGroup |-> Kept(df, TodayRows(df, t)),
           upcoming |-> u, past |-> HeadRows(p, PastLimit)] :
             u \in SortedByDateText(df, Kept(df, UpcomingRows(df, t)), TRUE),
             p \in SortedByDateText(df, Kept(df, PastRows(df, t)), FALSE)}

\* The state after a run of show_dashboard whose class load went as `call`
DashboardReturn(cl, call, tutor_id) ==
    /\ cache' = call.cache
    /\ client' = IF call.fetched THEN cl ELSE client
    /\ \E shown \in DashboardOf(call.res, today) :
          lastOp' = [op |-> "dashboard", tutor_id |-> tutor_id, df |-> call.res.df]
                        @@ shown
    /\ UNCHANGED <<remote, up, today, emptyRaises>>

\* show_dashboard for the logged-in tutor (no memo dialog open)
ShowDashboardWith(cl, held, tutor_id) ==
    DashboardReturn(cl, TutorClassesCall(held, cl, tutor_id), tutor_id)

ShowDashboard(tutor_id) ==
    \E cl \in ClientChoices :
        ShowDashboardWith(cl, cache, tutor_id) /\ UNCHANGED session

-----------------------------------------------------------------------------
(* The dashboard of tutor T1 on 28 April 2024, over Schedule sheets whose three *)
(* rows carry dates around that day in the formats parse_date reads             *)

DashToday == [year |-> 2024, month |-> 4, day |-> 28]

DashDates ==
    { <<"28", "/", "04", "/", "2024">>,         \* today
      <<"2024", "-", "04", "-", "28">>,         \* today, year first
      <<"30", "/", "04", "/", "2024">>,         \* in 2 days
      <<"01", "/", "05", "/", "2024">>,         \* in 3 days
      <<"04", "/", "29", "/", "2024">>,         \* tomorrow, month first
      <<"05", "-", "05", "-", "2024">>,         \* in 7 days
      <<"06", "/", "05", "/", "2024">>,         \* in 8 days
      <<"27", "/", "04", "/", "2024">>,         \* yesterday
      <<"05", "/", "04", "/", "2024">>,         \* 5 April
      <<"2024", "-", "03", "-", "31">>,         \* 31 March, year first
      Pad(<<"30", "/", "04", "/", "2024">>),
      S("soon") }

DashSchedule(a, b, c) ==
    [ScheduleSheet EXCEPT !.rows[1][IndexOf(ScheduleSheet.headers, Date)] = a,
                          !.rows[2][IndexOf(ScheduleSheet.headers, Date)] = b,
                          !.rows[3][IndexOf(ScheduleSheet.headers, Date)] = c]

InitDash ==
    /\ remote \in {<<DashSchedule(a, b, c)>> : a \in DashDates, b \in DashDates, c \in DashDates}
    /\ up = TRUE
    /\ client = "unset"
    /\ cache = EmptyCache
    /\ today = DashToday
    /\ emptyRaises \in BOOLEAN
    /\ lastOp = [op |-> "start"]
    /\ session = NewSession

NextDash ==
    \/ Refresh
    \/ ShowDashboard(S("T1"))

SpecDash == InitDash /\ [][NextDash]_vars

-----------------------------------------------------------------------------
(* C18: the dashboard places every row of the tutor's classes in Today exactly *)
(* when its Date parses to today, in Upcoming exactly when it parses to a day  *)
(* after today and at most 7 days ahead, in Past exactly when it parses to a   *)
(* day before today; the groups are disjoint and a row whose Date does not     *)
(* parse is in none of them.                                                   *)

C18_Placed(df, t, op) ==
    \A i \in DOMAIN df.data :
        LET d == parse_date(Cell(df, i, Date)) IN
        /\ i \in Range(op.todayGroup) <=> d = t
        /\ i \in Range(op.upcoming) <=>
              (d # NoDate /\ toordinal(t) < toordinal(d) /\ toordinal(d) <= toordinal(t) + 7)
        /\ i \in Range(op.past) <=> (d # NoDate /\ toordinal(d) < toordinal(t))
        /\ d = NoDate => i \notin Range(op.todayGroup) \cup Range(op.upcoming) \cup Range(op.past)

C18_Disjoint(op) ==
    /\ Range(op.todayGroup) \cap Range(op.upcoming) = {}
    /\ Range(op.todayGroup) \cap Range(op.past) = {}
    /\ Range(op.upcoming) \cap Range(op.past) = {}

\* C18: after every dashboard run on a non-empty class list, each row is in the
\* group its parsed Date says, in no other, and in none when it does not parse
C18_Groups ==
    (lastOp.op = "dashboard" /\ lastOp.tabs) =>
        /\ ~lastOp.raised
        /\ C18_Placed(lastOp.df, today, lastOp)
        /\ C18_Disjoint(lastOp)

\* The same placement on the runs where every Date of the tutor's rows parses
C18_WhenEveryDateParses ==
    (lastOp.op = "dashboard" /\ lastOp.tabs /\ ~MaskHasNone(lastOp.df)) =>
        /\ ~lastOp.raised
        /\ C18_Placed(lastOp.df, today, lastOp)
        /\ C18_Disjoint(lastOp)

\* A run with a row in each group
C18_AllGroupsSeen ==
    /\ lastOp.op = "dashboard" /\ lastOp.tabs /\ lastOp.grouped
    /\ lastOp.todayGroup # <<>> /\ lastOp.upcoming # <<>> /\ lastOp.past # <<>>

-----------------------------------------------------------------------------
(* C19: the Upcoming group is listed in ascending order of the parsed dates    *)
(* and the Past group in descending order of the parsed dates, whatever mix of *)
(* formats the Date texts use, and the Past rows shown are the most recent by  *)
(* parsed date.                                                                *)

C19_DayOf(df, i) == toordinal(parse_date(Cell(df, i, Date)))

\* C19: after every dashboard run that built its groups, Upcoming ascends and
\* Past descends by parsed date, and no Past row left out is more recent than
\* one that is shown
C19_OrderedByParsedDate ==
    (lastOp.op = "dashboard" /\ lastOp.grouped) =>
        LET df == lastOp.df
            u  == lastOp.upcoming
            p  == lastOp.past
        IN
        /\ \A i, j \in DOMAIN u : i < j => C19_DayOf(df, u[i]) <= C19_DayOf(df, u[j])
        /\ \A i, j \in DOMAIN p : i < j => C19_DayOf(df, p[i]) >= C19_DayOf(df, p[j])
        /\ \A k \in DOMAIN df.data :
              (IsPast(Cell(df, k, Date), today) /\ k \notin Range(p)) =>
                  \A i \in DOMAIN p : C19_DayOf(df, k) <= C19_DayOf(df, p[i])

\* What sort_values('Date') does give: both groups ordered by the Date text
C19_OrderedByDateText ==
    (lastOp.op = "dashboard" /\ lastOp.grouped) =>
        LET df == lastOp.df
            u  == lastOp.upcoming
            p  == lastOp.past
        IN
        /\ \A i, j \in DOMAIN u : i < j => TextLeq(Cell(df, u[i], Date), Cell(df, u[j], Date))
        /\ \A i, j \in DOMAIN p : i < j => TextLeq(Cell(df, p[j], Date), Cell(df, p[i], Date))

-----------------------------------------------------------------------------
(* Reads and writes on spreadsheets whose Schedule or Student_Plan sheet has a *)
(* trailing blank in its title or in the header of a column that is written    *)

TrailingBlank(s) == s \o <<WS>>

Retitled(book, title) ==
    [book EXCEPT ![WorksheetIndex(book, title)].title = TrailingBlank(title)]

Reheaded(book, title, column) ==
    LET i == WorksheetIndex(book, title) IN
    [book EXCEPT ![i].headers[IndexOf(book[i].headers, column)] = TrailingBlank(column)]

SchemaBooks ==
    { Book,
      Retitled(Book, Schedule), Reheaded(Book, Schedule, Tutor_Memo),
      Retitled(Book, Student_Plan), Reheaded(Book, Student_Plan, Status) }

InitSchema ==
    /\ remote \in SchemaBooks
    /\ up = TRUE
    /\ client = "unset"
    /\ cache = EmptyCache
    /\ today = Day2
    /\ emptyRaises = FALSE
    /\ lastOp = [op |-> "start"]
    /\ session = NewSession

NextSchema ==
    \/ Tick
    \/ Refresh
    \/ GetTutorClasses(S("T1"))
    \/ GetStudentPlan(S("s1"))
    \/ \E m \in {S("note"), S("redo")} : SaveTutorMemo(S("s1"), StrftimeDMY(Day1), m)
    \/ \E p \in {S("P1"), S("P2")} : MarkTopicComplete(p, S("T1"))

SpecSchema == InitSchema /\ [][NextSchema]_vars

-----------------------------------------------------------------------------
(* C20: a table and column that load_sheet_data shows (sheet title and header  *)
(* compared after stripping) are the ones save_tutor_memo and                  *)
(* mark_topic_complete write to: on a row the read path shows, the write is    *)
(* not refused for a missing sheet, column or row.                             *)

\* The frame load_sheet_data builds from the spreadsheet, None when no sheet resolves
C20_Read(name) ==
    IF ResolveWorksheet(remote, name) = 0 THEN NoneResult
    ELSE Some(FrameOf(remote[ResolveWorksheet(remote, name)]))

C20_ReadShowsClass(student_id, class_date) ==
    LET r == C20_Read(Schedule) IN
    /\ ~r.isNone
    /\ HasColumn(r.df, Tutor_Memo) /\ HasColumn(r.df, Student_ID) /\ HasColumn(r.df, Date)
    /\ \E i \in DOMAIN r.df.data :
          /\ Strip(Cell(r.df, i, Student_ID)) = Strip(student_id)
          /\ Strip(Cell(r.df, i, Date)) = Strip(class_date)

C20_ReadShowsPlan(plan_id) ==
    LET r == C20_Read(Student_Plan) IN
    /\ ~r.isNone
    /\ \A c \in {Plan_ID, Status, Completed_By, Date_Completed} : HasColumn(r.df, c)
    /\ \E i \in DOMAIN r.df.data : Cell(r.df, i, Plan_ID) = plan_id

C20_SchemaRefusals ==
    { ErrorSavingMemo("WorksheetNotFound"), MemoColumnNotFound, ClassNotFound,
      ErrorUpdating("WorksheetNotFound"), ErrorUpdating("ValueError"), PlanNotFound }

\* C20: a write aimed at a row that the read path shows is never refused for a
\* sheet, column or row the write path could not find
C20_ReadAndWriteAgree ==
    /\ (lastOp.op = "memo" /\ C20_ReadShowsClass(lastOp.student_id, lastOp.class_date))
          => lastOp.msg \notin C20_SchemaRefusals
    /\ (lastOp.op = "mark" /\ C20_ReadShowsPlan(lastOp.plan_id))
          => lastOp.msg \notin C20_SchemaRefusals

\* The same agreement on the spreadsheets whose titles and headers carry no blanks
C20_WhenNamesAreExact ==
    remote[WorksheetIndex(Book, Schedule)].title = Schedule
    /\ remote[WorksheetIndex(Book, Schedule)].headers = ScheduleSheet.headers
    /\ remote[WorksheetIndex(Book, Student_Plan)].title = Student_Plan
    /\ remote[WorksheetIndex(Book, Student_Plan)].headers = StudentPlanSheet.headers
    => C20_ReadAndWriteAgree

-----------------------------------------------------------------------------
(* The pages of one browser session: each action is one run of the script,    *)
(* started by a button of the page main() shows or by st.rerun()              *)

\* main(): the page the script shows for a session state
mainUngated(s) ==
    IF s.current_view = "dashboard"
    THEN (IF s.show_memo_dialog.isNone THEN "dashboard" ELSE "memo")
    ELSE IF s.current_view = "student" THEN "student"
    ELSE "none"

main(s) ==
    IF ~s.logged_in THEN "login"
    ELSE IF s.current_view = "dashboard"
         THEN (IF s.show_memo_dialog.isNone THEN "dashboard" ELSE "memo")
    ELSE IF s.current_view = "student" THEN "student"
    ELSE "none"

\* A button of `page` can be pressed: the page is shown and no rerun is pending
Pressed(page) == ~session.rerun /\ main(session) = page

Rerun(s) == [s EXCEPT !.rerun = TRUE]

\* st.rerun(): the script runs again and shows the page of the session state
Render ==
    /\ session.rerun
    /\ session' = [session EXCEPT !.rerun = FALSE]
    /\ CASE main(session) = "dashboard" ->
              \E cl \in ClientChoices : ShowDashboardWith(cl, cache, session.tutor_id)
         [] main(session) = "student" ->
              \E cl \in ClientChoices :
                  GetStudentPlanWith(cl, cache, session.selected_student.id)
         [] OTHER ->
              /\ lastOp' = [op |-> "page", page |-> main(session)]
              /\ UNCHANGED <<remote, up, client, cache, today, emptyRaises>>

\* The Login button of show_login
SubmitLogin(tutor_id, password) ==
    /\ Pressed("login")
    /\ IF tutor_id = Blank \/ password = Blank
       THEN /\ lastOp' = [op |-> "page", page |-> "login"]
            /\ UNCHANGED <<remote, up, client, cache, today, emptyRaises, session>>
       ELSE /\ \E cl \in ClientChoices :
                  AuthenticateTutorWith(cl, cache, tutor_id, password)
            /\ session' = IF lastOp'.ok
                          THEN Rerun([session EXCEPT !.logged_in = TRUE,
                                                     !.tutor_id = tutor_id,
                                                     !.tutor_name = lastOp'.msg])
                          ELSE session

\* The Check Tutors Sheet button of show_login
CheckTutorsSheet == Pressed("login") /\ LoadSheetData(Tutors)

\* The Logout button of show_dashboard
Logout ==
    /\ Pressed("dashboard")
    /\ session' = Rerun([session EXCEPT !.logged_in = FALSE, !.tutor_id = NoValue])
    /\ lastOp' = [op |-> "logout"]
    /\ UNCHANGED <<remote, up, client, cache, today, emptyRaises>>

\* The Refresh button of show_dashboard and the Refresh Data button of show_student_plan
PressRefresh ==
    /\ Pressed("dashboard") \/ Pressed("student")
    /\ cache' = ClearCache
    /\ session' = Rerun(session)
    /\ lastOp' = [op |-> "refresh"]
    /\ UNCHANGED <<remote, up, client, today, emptyRaises>>

\* The rows of a dashboard run that got a class card with its two buttons
CardRows(op) ==
    IF ~HasColumn(op.df, Student_ID) \/ ~HasColumn(op.df, Subject) THEN {}
    ELSE Range(op.todayGroup) \cup Range(op.upcoming) \cup Range(op.past)

\* The Memo button of a class card
PressMemo ==
    /\ Pressed("dashboard")
    /\ \E cl \in ClientChoices : ShowDashboardWith(cl, cache, session.tutor_id)
    /\ \E i \in CardRows(lastOp') :
          LET df == lastOp'.df IN
          session' = Rerun([session EXCEPT !.show_memo_dialog =
                        [isNone        |-> FALSE,
                         student_id    |-> Cell(df, i, Student_ID),
                         student_name  |-> DisplayName(df, i),
                         date          |-> Cell(df, i, Date),
                         existing_memo |-> IF HasColumn(df, Tutor_Memo)
                                           THEN Cell(df, i, Tutor_Memo) ELSE Blank]])

\* The View Progress button of a class card
PressViewProgress ==
    /\ Pressed("dashboard")
    /\ \E cl \in ClientChoices : ShowDashboardWith(cl, cache, session.tutor_id)
    /\ \E i \in CardRows(lastOp') :
          LET df == lastOp'.df IN
          session' = Rerun([session EXCEPT !.current_view = "student",
                                           !.selected_student =
                        [isNone  |-> FALSE,
                         id      |-> Cell(df, i, Student_ID),
                         name    |-> DisplayName(df, i),
                         subject |-> Cell(df, i, Subject)]])

\* The Save Memo button of show_memo_dialog
PressSaveMemo(memo_text) ==
    /\ Pressed("memo")
    /\ IF Strip(memo_text) = Blank
       THEN /\ lastOp' = [op |-> "page", page |-> "memo"]
            /\ UNCHANGED <<remote, up, client, cache, today, emptyRaises, session>>
       ELSE /\ \E cl \in ClientChoices :
                  SaveTutorMemoWith(cl, cache, session.show_memo_dialog.student_id,
                                    session.show_memo_dialog.date, Strip(memo_text))
            /\ session' = IF lastOp'.ok
                          THEN Rerun([session EXCEPT !.show_memo_dialog = NoDialog])
                          ELSE session

\* The Cancel button of show_memo_dialog
PressCancel ==
    /\ Pressed("memo")
    /\ session' = Rerun([session EXCEPT !.show_memo_dialog = NoDialog])
    /\ lastOp' = [op |-> "cancel"]
    /\ UNCHANGED <<remote, up, client, cache, today, emptyRaises>>

\* The Back to Dashboard button of show_student_plan
PressBack ==
    /\ Pressed("student")
    /\ session' = Rerun([session EXCEPT !.current_view = "dashboard"])
    /\ lastOp' = [op |-> "back"]
    /\ UNCHANGED <<remote, up, client, cache, today, emptyRaises>>

\* The rows of a plan that got a Mark Done button
MarkDoneRows(res) ==
    IF res.raised \/ IsEmpty(res.df) THEN {}
    ELSE IF ~HasColumn(res.df, Status) \/ ~HasColumn(res.df, Plan_ID) THEN {}
    ELSE {i \in DOMAIN res.df.data : Cell(res.df, i, Status) # Completed}

\* mark_topic_complete for a button of the plan that this run loaded
MarkDoneOn(cl, plan) ==
    \E i \in MarkDoneRows(plan.res) :
        MarkTopicCompleteWith(cl, plan.cache, Cell(plan.res.df, i, Plan_ID),
                              session.tutor_id)

\* A Mark Done button of show_student_plan: the plan is loaded, then the topic
\* of the button is marked for the session's tutor
PressMarkDone ==
    /\ Pressed("student")
    /\ \E cl \in ClientChoices :
          MarkDoneOn(cl, StudentPlanCall(cache, cl, session.selected_student.id))
    /\ session' = IF lastOp'.ok THEN Rerun(session) ELSE session

LoginIds == {S("T1"), S("T2"), Blank}

LoginPasswords == {S("pw1"), S("pw2")}

InitSession ==
    /\ remote = Book
    /\ up = TRUE
    /\ client = "unset"
    /\ cache = EmptyCache
    /\ today = Day2
    /\ emptyRaises = FALSE
    /\ lastOp = [op |-> "start"]
    /\ session = NewSession

NextSession ==
    \/ Render
    \/ \E t \in LoginIds, p \in LoginPasswords : SubmitLogin(t, p)
    \/ CheckTutorsSheet
    \/ Logout
    \/ PressRefresh
    \/ PressMemo
    \/ PressViewProgress
    \/ \E m \in {S("note"), S(WS)} : PressSaveMemo(m)
    \/ PressCancel
    \/ PressBack
    \/ PressMarkDone

SpecSession == InitSession /\ [][NextSession]_vars

-----------------------------------------------------------------------------
(* C21: logged_in is true only after a successful authenticate_tutor call     *)
(* made since the last logout, the session's tutor_id is the id given to that *)
(* call, and the dashboard, the student plan view and the two mutations run   *)
(* only while logged_in is true.                                              *)

\* One step of the session: logged_in is set only by a step that is a successful
\* authenticate_tutor call for the tutor_id the session then holds, it is kept
\* only with the same tutor_id, and a step that runs the dashboard, the plan
\* view, save_tutor_memo or mark_topic_complete starts from a logged-in session
C21_Step ==
    /\ session'.logged_in =>
          \/ session.logged_in /\ session'.tutor_id = session.tutor_id
          \/ /\ lastOp'.op = "auth" /\ lastOp'.ok
             /\ session'.tutor_id = lastOp'.tutor_id
             /\ \E cl \in ClientChoices :
                   AuthenticateTutorWith(cl, cache, lastOp'.tutor_id, lastOp'.password)
    /\ lastOp'.op \in {"dashboard", "plan", "memo", "mark"} => session.logged_in

\* C21: a session starts logged out and every step keeps to the login rule above
C21_LoginGate == ~session.logged_in /\ [][C21_Step]_vars

\* A topic was marked by the logged-in tutor
C21_Witness ==
    /\ session.logged_in /\ session.tutor_id = S("T1")
    /\ lastOp.op = "mark" /\ lastOp.ok /\ lastOp.tutor_id = S("T1")

\* A second tutor's dashboard after the first tutor logged out
C21_WitnessSecondLogin ==
    /\ session.logged_in /\ session.tutor_id = S("T2")
    /\ lastOp.op = "dashboard" /\ lastOp.tutor_id = S("T2")
    /\ ~session.selected_student.isNone

-----------------------------------------------------------------------------
(* C22: Logout resets the whole session: right after a successful login the   *)
(* page to show is the dashboard of the tutor who logged in, no student is    *)
(* selected, no memo dialog is pending, and tutor_name, selected_student and  *)
(* show_memo_dialog hold nothing of the session before the logout.            *)

C22_FreshFor(tutor_id, tutor_name) ==
    /\ session.logged_in /\ main(session) = "dashboard"
    /\ session.tutor_id = tutor_id /\ session.tutor_name = tutor_name
    /\ session.show_memo_dialog = NoDialog

\* C22: the session a successful login leaves (a first login starts from a new
\* session, so only a login after a Logout can have anything left over)
C22_LogoutResets ==
    (lastOp.op = "auth" /\ lastOp.ok) =>
        /\ C22_FreshFor(lastOp.tutor_id, lastOp.msg)
        /\ session.selected_student = NoStudent

\* What does hold after a login: the dashboard of the new tutor is the page to
\* show, under the new tutor's name and with no memo dialog pending
C22_ExceptSelectedStudent ==
    (lastOp.op = "auth" /\ lastOp.ok) => C22_FreshFor(lastOp.tutor_id, lastOp.msg)

====
